---- MODULE Spec2Model ----
(***************************************************************************)
(* A model of gux-tool (gux_checker): the technique registry, the Report   *)
(* aggregator, the analysis pipeline with its composite 'all' technique,   *)
(* and the lenient .gux parser.                                            *)
(*                                                                         *)
(* Python values are modelled as follows.  A dict is a function whose      *)
(* DOMAIN is its key set; None is the string "None"; an exception leaving  *)
(* a call is a record [raised |-> <exception class>, ...].                 *)
(***************************************************************************)
EXTENDS Integers, Sequences, FiniteSets, TLC

None == "None"

(***************************************************************************)
(* Strings are compared as Python compares them: by code point.            *)
(***************************************************************************)
CodePoints(n) ==
  CASE n = "all" -> <<97, 108, 108>>
    [] n = "census" -> <<99, 101, 110, 115, 117, 115>>
    [] n = "census-diff" -> <<99, 101, 110, 115, 117, 115, 45, 100, 105, 102, 102>>
    [] n = "colours" -> <<99, 111, 108, 111, 117, 114, 115>>
    [] n = "compare" -> <<99, 111, 109, 112, 97, 114, 101>>
    [] n = "lines" -> <<108, 105, 110, 101, 115>>
    [] n = "llm_vision" -> <<108, 108, 109, 95, 118, 105, 115, 105, 111, 110>>
    [] n = "ocr" -> <<111, 99, 114>>
    [] n = "regions" -> <<114, 101, 103, 105, 111, 110, 115>>
    [] n = "verify" -> <<118, 101, 114, 105, 102, 121>>
    [] n = "zones" -> <<122, 111, 110, 101, 115>>
    [] n = "help" -> <<104, 101, 108, 112>>
    [] n = "rfc" -> <<114, 102, 99>>
    [] n = "unknown" -> <<117, 110, 107, 110, 111, 119, 110>>
    [] n = "slate800" -> <<115, 108, 97, 116, 101, 56, 48, 48>>
    [] n = "white" -> <<119, 104, 105, 116, 101>>

RECURSIVE LexLess(_, _)
LexLess(a, b) ==
  IF b = <<>> THEN FALSE
  ELSE IF a = <<>> THEN TRUE
  ELSE IF Head(a) # Head(b) THEN Head(a) < Head(b)
  ELSE LexLess(Tail(a), Tail(b))

StrLess(a, b) == LexLess(CodePoints(a), CodePoints(b))

\* sorted(..., reverse=True)
SortedDescending(S) ==
  LET RECURSIVE Srt(_)
      Srt(T) == IF T = {} THEN <<>>
                ELSE LET m == CHOOSE x \in T : \A y \in T \ {x} : StrLess(y, x)
                     IN <<m>> \o Srt(T \ {m})
  IN Srt(S)

\* sorted(<set of str>): ascending, each string after the strings less than it.
Sorted(S) ==
  [i \in 1..Cardinality(S) |->
     CHOOSE x \in S : Cardinality({y \in S : StrLess(y, x)}) = i - 1]

Range(s) == {s[i] : i \in 1..Len(s)}

(***************************************************************************)
(* The techniques package.  A module is [mod, technique]: its file name    *)
(* and the name of the Technique object it defines (None: it defines no    *)
(* `technique`).                                                           *)
(***************************************************************************)
Mod(m, t) == [mod |-> m, technique |-> t]

\* The modules of gux_checker/techniques, in pkgutil's (sorted) order.
RepoPackage ==
  << Mod("all", "all"), Mod("census", "census"), Mod("census_diff", "census-diff"),
     Mod("colours", "colours"), Mod("compare", "compare"), Mod("lines", "lines"),
     Mod("llm_vision", "llm_vision"), Mod("ocr", "ocr"), Mod("regions", "regions"),
     Mod("verify", "verify"), Mod("zones", "zones") >>

\* registry._TECHNIQUE_MODULES: the fallback of a frozen binary.
TECHNIQUE_MODULES ==
  << "all", "census", "census_diff", "colours", "compare", "lines", "ocr",
     "regions", "verify", "zones" >>

\* importlib.import_module('gux_checker.techniques.<name>') for a bundled module.
RepoModule(name) ==
  IF \E i \in 1..Len(RepoPackage) : RepoPackage[i].mod = name
  THEN LET i == CHOOSE i \in 1..Len(RepoPackage) : RepoPackage[i].mod = name
       IN RepoPackage[i]
  ELSE None

\* modname.startswith('_')
IsPrivate(m) == m.mod \in {"_helpers"}

\* pkgutil.iter_modules(pkg.__path__), private modules filtered out; the
\* known list when it finds nothing.
FoundModules(pkg) ==
  LET found == SelectSeq(pkg, LAMBDA m : ~IsPrivate(m))
  IN IF found = <<>>
     THEN [i \in 1..Len(TECHNIQUE_MODULES) |-> RepoModule(TECHNIQUE_MODULES[i])]
     ELSE found

\* A Technique object: its name and the module that created it.
Tech(m) == [name |-> m.technique, module |-> m.mod]

\* A plausible slip: the first registration under a name is kept.
RegisterFirstWins(reg, m) ==
  IF m.technique = None \/ m.technique \in DOMAIN reg THEN reg
  ELSE [n \in DOMAIN reg \cup {m.technique} |->
          IF n = m.technique THEN Tech(m) ELSE reg[n]]

\* _registry[tech.name] = tech, for a module that defines a Technique.
Register(reg, m) ==
  IF m.technique = None THEN reg
  ELSE [n \in DOMAIN reg \cup {m.technique} |->
          IF n = m.technique THEN Tech(m) ELSE reg[n]]

EmptyDict == [n \in {} |-> None]

\* registry.discover()
Discover(reg, pkg) ==
  IF DOMAIN reg # {} THEN reg
  ELSE LET found == FoundModules(pkg)
           RECURSIVE Load(_, _)
           Load(r, i) == IF i > Len(found) THEN r
                         ELSE Load(Register(r, found[i]), i + 1)
       IN Load(reg, 1)

\* KeyError(f'Unknown technique: {name}. Available: {", ".join(sorted(reg))}')
KeyError(name, reg) ==
  [raised |-> "KeyError", unknown |-> name, available |-> Sorted(DOMAIN reg)]

\* registry.get(name), on the discovered registry.
Get(name, reg) ==
  IF name \notin DOMAIN reg THEN KeyError(name, reg) ELSE reg[name]

Raised(v) == "raised" \in DOMAIN v

ValueError == [raised |-> "ValueError"]


(***************************************************************************)
(* The Report aggregator (core/types.py).  Report.zones is a dict in       *)
(* insertion order: `order` lists its keys as inserted and `zones` maps    *)
(* each key to {'bounds': ..., 'techniques': {...}}.  Bounds of None are   *)
(* the empty tuple.                                                        *)
(***************************************************************************)
NoBounds == <<>>

NewReport == [order |-> <<>>, zones |-> EmptyDict, pass_count |-> 0, fail_count |-> 0]

\* A plausible slip: a new zone entry goes before the entries there are.
TouchFirst(r, zone_name) ==
  IF zone_name \in DOMAIN r.zones THEN r
  ELSE [r EXCEPT !.order = <<zone_name>> \o @,
                 !.zones = [z \in DOMAIN @ \cup {zone_name} |->
                              IF z = zone_name
                              THEN [bounds |-> <<>>, techniques |-> <<>>]
                              ELSE @[z]]]

\* if zone_name not in self.zones: self.zones[zone_name] = {'bounds': None, 'techniques': {}}
Touch(r, zone_name) ==
  IF zone_name \in DOMAIN r.zones THEN r
  ELSE [r EXCEPT !.order = Append(@, zone_name),
                 !.zones = [z \in DOMAIN @ \cup {zone_name} |->
                              IF z = zone_name
                              THEN [bounds |-> NoBounds, techniques |-> EmptyDict]
                              ELSE @[z]]]

\* A plausible slip: the zone's results are replaced, not updated.
AddReplacing(r, zone_name, technique_name, data) ==
  LET t == Touch(r, zone_name)
  IN [t EXCEPT !.zones[zone_name].techniques =
        [n \in {technique_name} |-> data]]

\* Report.add
Add(r, zone_name, technique_name, data) ==
  LET t == Touch(r, zone_name)
  IN [t EXCEPT !.zones[zone_name].techniques =
        [n \in DOMAIN @ \cup {technique_name} |->
           IF n = technique_name THEN data ELSE @[n]]]

\* Report.set_bounds
SetBounds(r, zone_name, bounds) ==
  [Touch(r, zone_name) EXCEPT !.zones[zone_name].bounds = bounds]

\* A plausible slip: a pass is counted twice.
RecordPassTwice(r, zone_name) == [r EXCEPT !.pass_count = @ + 2]

\* Report.record_pass
RecordPass(r, zone_name) == [r EXCEPT !.pass_count = @ + 1]

\* Report.record_fail
RecordFail(r, zone_name) == [r EXCEPT !.fail_count = @ + 1]

\* The techniques of a zone of the report, {} when it has no entry.
Payloads(r, zone_name) ==
  IF zone_name \in DOMAIN r.zones THEN r.zones[zone_name].techniques ELSE EmptyDict

HasPayload(r, zone_name, technique_name) ==
  technique_name \in DOMAIN Payloads(r, zone_name)

(***************************************************************************)
(* State.                                                                  *)
(*   package   the modules pkgutil finds in gux_checker/techniques         *)
(*             (<<>>: a frozen binary, where it finds none)                *)
(*   registry  registry._registry                                          *)
(*   cli       the last registry / command-line call and what it gave      *)
(*   report    the Report object                                           *)
(*   call      the last call made on the Report                            *)
(*   written   the payload of the latest add for each (zone, technique)    *)
(*   args      the options bundle of a run, with the environment it names  *)
(*   zones     the list of ZoneImage crops of a run                        *)
(*   stack     the techniques executing, innermost last                    *)
(*   status    "ready", "running", "returned", "raised", "output",         *)
(*             "exit 0" or "exit 1"                                        *)
(*   events    the techniques started and ended so far, in order           *)
(*   last      what the last step of a run did to the counters             *)
(*   text      the text handed to the parser                               *)
(*   parsed    what the parser gave for it                                 *)
(*   environ   os.environ                                                  *)
(***************************************************************************)
VARIABLES package, registry, cli, report, call, written,
          args, zones, stack, status, events, last, text, parsed, environ,
          scanline, runs

vars == <<package, registry, cli, report, call, written,
          args, zones, stack, status, events, last, text, parsed, environ,
          scanline, runs>>

regVars == <<package, registry, cli>>
reportVars == <<report, call, written>>
runVars == <<args, zones, stack, status, events, last>>
parseVars == <<text, parsed>>
envVars == <<environ>>
scanVars == <<scanline, runs>>

\* The parts of the state a specification does not use stay as they are here.
RegIdle == package = <<>> /\ registry = <<>> /\ cli = [op |-> "import"]
ReportIdle == call = [op |-> "new"] /\ written = <<>>
RunIdle ==
  /\ args = <<>> /\ zones = <<>> /\ stack = <<>> /\ status = "ready"
  /\ events = <<>> /\ last = <<>>
\* parse_gux_string has not been called.
NotParsed == [called |-> FALSE]

ParseIdle == text = <<>> /\ parsed = NotParsed
EnvIdle == environ = <<>>
\* _find_runs has not been called.
NoRuns == [called |-> FALSE]

ScanIdle == scanline = <<>> /\ runs = NoRuns

\* Modules a techniques directory may also hold, in directory order: a
\* private helper, a second module naming its technique 'census', a module
\* with no `technique` object.
ExtraModules ==
  << Mod("_helpers", None), Mod("census", "census"), Mod("census_v2", "census"),
     Mod("lines", "lines"), Mod("util", None) >>

SubSeqs(s) ==
  { SelectSeq([i \in 1..Len(s) |-> [m |-> s[i], keep |-> i \in K]],
              LAMBDA x : x.keep) : K \in SUBSET (1..Len(s)) }

Packages ==
  {RepoPackage} \cup
  { [i \in 1..Len(p) |-> p[i].m] : p \in SubSeqs(ExtraModules) }

\* The packages of this repository: as installed, and frozen.
IsRepo(pkg) == pkg \in {RepoPackage, <<>>}

\* The module names importlib can import from the package.
Importable(pkg) ==
  {pkg[i].mod : i \in 1..Len(pkg)} \cup
  (IF SelectSeq(pkg, LAMBDA m : ~IsPrivate(m)) = <<>>
   THEN Range(TECHNIQUE_MODULES) ELSE {})

\* __main__._load_technique_module(name), for a registered name:
\* importlib.import_module(f'gux_checker.techniques.{name}')
LoadTechniqueModule(name, reg, pkg) ==
  IF name \in Importable(pkg)
  THEN [module |-> name]
  ELSE [raised |-> "ModuleNotFoundError", module |-> name]

\* The loop of _build_parser / _print_help(None) over sorted(techniques):
\* the subcommands added before a module fails to load, and the failure.
LoadAll(reg, pkg) ==
  LET names == Sorted(DOMAIN reg)
      RECURSIVE Walk(_, _)
      Walk(i, done) ==
        IF i > Len(names) THEN [result |-> [done |-> TRUE], loaded |-> done]
        ELSE LET mod == LoadTechniqueModule(names[i], reg, pkg)
             IN IF Raised(mod)
                THEN [result |-> mod, loaded |-> done]
                ELSE Walk(i + 1, Append(done, names[i]))
  IN Walk(1, <<>>)

RegInit ==
  /\ package \in Packages
  /\ registry = EmptyDict
  /\ cli = [op |-> "import"]
  /\ report = NewReport /\ ReportIdle /\ RunIdle /\ ParseIdle /\ EnvIdle /\ ScanIdle

LookupNames == {"all", "census", "census-diff", "lines", "llm_vision", "unknown"}

\* registry.get(name)
CallGet ==
  \E name \in LookupNames :
    LET reg == Discover(registry, package)
    IN /\ registry' = reg
       /\ cli' = [op |-> "get", name |-> name, result |-> Get(name, reg)]
       /\ UNCHANGED <<package, reportVars, runVars, parseVars, scanVars, envVars>>

\* __main__._build_parser()
BuildParser ==
  LET reg == Discover(registry, package)
  IN /\ registry' = reg
     /\ cli' = [op |-> "build_parser"] @@ LoadAll(reg, package)
     /\ UNCHANGED <<package, reportVars, runVars, parseVars, scanVars, envVars>>

\* __main__._print_help(command)
PrintHelp ==
  \E command \in LookupNames \cup {None} :
    LET reg == Discover(registry, package)
    IN /\ registry' = reg
       /\ cli' =
            IF command = None
            THEN [op |-> "help", command |-> command] @@ LoadAll(reg, package)
            ELSE IF command \notin DOMAIN reg
            THEN [op |-> "help", command |-> command,
                  result |-> [raised |-> "SystemExit", available |-> Sorted(DOMAIN reg)]]
            ELSE [op |-> "help", command |-> command,
                  result |-> LoadTechniqueModule(command, reg, package)]
       /\ UNCHANGED <<package, reportVars, runVars, parseVars, scanVars, envVars>>

RegNext == CallGet \/ BuildParser \/ PrintHelp

SpecReg == RegInit /\ [][RegNext]_vars


Max(S) == CHOOSE x \in S : \A y \in S : y <= x

(***************************************************************************)
(* C3.  For every technique name in the registry the command line's module *)
(* lookup for that name resolves to an existing technique module, so       *)
(* building the argument parser and `help <technique>` succeed for every   *)
(* registered technique, and help prints that technique's module.          *)
(* Stated of this repository's package, installed or frozen.               *)
(***************************************************************************)
C3_ModuleLookupResolves ==
  IsRepo(package) =>
    /\ \A n \in DOMAIN registry : n \in Importable(package)
    /\ cli.op = "build_parser" => ~Raised(cli.result)
    /\ (cli.op = "help" /\ cli.command \in DOMAIN registry) =>
         /\ ~Raised(cli.result)
         /\ cli.result.module = registry[cli.command].module

(***************************************************************************)
(* C7.  registry.get(name) returns the technique registered under exactly  *)
(* that name when one exists; when two modules register the same name it   *)
(* is the last-registered one; for an unknown name it raises a KeyError    *)
(* whose message lists the known names.                                    *)
(***************************************************************************)
C7_GetLastRegistered ==
  cli.op = "get" =>
    LET found == FoundModules(package)
        idx == {i \in 1..Len(found) : found[i].technique = cli.name}
    IN IF idx # {}
       THEN cli.result = Tech(found[Max(idx)])
       ELSE /\ Raised(cli.result)
            /\ cli.result.raised = "KeyError"
            /\ cli.result.unknown = cli.name
            /\ Range(cli.result.available) =
                 {found[i].technique : i \in 1..Len(found)} \ {None}
            /\ Len(cli.result.available) = Cardinality(Range(cli.result.available))

\* get('census') where two modules registered 'census'.
C7_Witness ==
  /\ cli.op = "get"
  /\ Cardinality({i \in 1..Len(package) : package[i].technique = cli.name}) = 2
  /\ cli.result.module = "census_v2"


(***************************************************************************)
(* Zone crops and the options bundle.                                      *)
(*                                                                         *)
(* A ZoneImage is [name, bounds, expected_bg, assertions, image].  The     *)
(* image is given by what the pixel algorithms measure on it: its size,    *)
(* the squared RGB distance of its dominant cluster to the expected        *)
(* background, the average transitions per scan line, and the census of    *)
(* the crop and of the reference crop (the names with their percentages,   *)
(* most frequent first).  Numbers with one decimal are in tenths.  An absent GuxAssert is NoAssert, an absent threshold    *)
(* is NoThreshold.                                                         *)
(***************************************************************************)
NoAssert == [none |-> TRUE]
NoThreshold == -1

GuxAssert(v, h, regions, non_blank) ==
  [min_transitions_v |-> v, min_transitions_h |-> h,
   min_regions |-> regions, non_blank |-> non_blank]

Pct(name, pct) == [name |-> name, pct |-> pct]

\* next(iter(census), None)
TopName(census) == IF census = <<>> THEN None ELSE census[1].name

Image(w, h, dist_sq, h_avg, v_avg, census, ref_census) ==
  [w |-> w, h |-> h, dist_sq |-> dist_sq, h_avg |-> h_avg, v_avg |-> v_avg,
   census |-> census, ref_census |-> ref_census,
   top |-> TopName(census), ref_top |-> TopName(ref_census)]

\* The crops of the runs explored: a plain zone; a one-pixel-high zone of one
\* colour with an expected colour 25.0 away and a non-blank assertion; a
\* second zone of the same name, of 500 pixels, with an expected colour
\* sqrt(399) away, both transition thresholds, and a census in which one name
\* goes from 3.2% to 8.2%; a two-pixel-high zone of one colour with a
\* non-blank assertion.
ZoneCrops ==
  { [name |-> "header", bounds |-> <<0, 0, 8, 5>>, expected_bg |-> None,
     assertions |-> NoAssert,
     image |-> Image(8, 5, 0, 0, 0, <<Pct("white", 1000)>>, <<Pct("white", 1000)>>)],
    [name |-> "main", bounds |-> <<0, 5, 8, 6>>, expected_bg |-> "#ffffff",
     assertions |-> GuxAssert(NoThreshold, NoThreshold, NoThreshold, TRUE),
     image |-> Image(8, 1, 625, 0, 0, <<Pct("slate800", 1000)>>,
                     <<Pct("white", 1000)>>)],
    [name |-> "main", bounds |-> <<0, 6, 25, 26>>, expected_bg |-> "#1e293b",
     assertions |-> GuxAssert(100, 50, 3, FALSE),
     image |-> Image(25, 20, 399, 60, 120,
                     <<Pct("slate800", 918), Pct("white", 82)>>,
                     <<Pct("slate800", 968), Pct("white", 32)>>)],
    [name |-> "footer", bounds |-> <<0, 26, 8, 28>>, expected_bg |-> None,
     assertions |-> GuxAssert(NoThreshold, NoThreshold, NoThreshold, TRUE),
     image |-> Image(8, 2, 0, 0, 0, <<Pct("white", 1000)>>,
                     <<Pct("white", 950), Pct("slate800", 50)>>)] }

\* A zone of no pixel: Bounds(0, 6, 0, 6).
EdgeCrops ==
  { [name |-> "main", bounds |-> <<0, 6, 0, 6>>, expected_bg |-> "#ffffff",
     assertions |-> GuxAssert(NoThreshold, NoThreshold, NoThreshold, TRUE),
     image |-> Image(0, 0, 0, 0, 0, <<>>, <<>>)] }

\* The longest zone list explored.
MaxZones == 2

RECURSIVE SeqsUpTo(_, _)
SeqsUpTo(S, n) ==
  IF n = 0 THEN {<<>>}
  ELSE LET shorter == SeqsUpTo(S, n - 1)
       IN shorter \cup {Append(q, x) : q \in {q \in shorter : Len(q) = n - 1}, x \in S}

ZoneLists == SeqsUpTo(ZoneCrops, MaxZones)

\* The zone lists explored with technique t: the zone of no pixel is taken
\* with the techniques whose own code decides what becomes of it.
CropLists(t) ==
  IF t \in {"colours", "lines"} THEN SeqsUpTo(ZoneCrops \cup EdgeCrops, MaxZones)
  ELSE ZoneLists

\* The file system and services the options name.
RefOpens(a) == a.ref = "ref.png"
Writable(a) == a.tmp_dir = "./tmp"

\* not hasattr(args, 'ref') or not args.ref
NoRefAlways(a) == FALSE
NoRef(a) == a.ref \in {None, ""}

(***************************************************************************)
(* The techniques.  Begin is the part of a run function before its loop    *)
(* over the zones: it gives the report and whether the run goes on to the  *)
(* loop, returns, or raises.  Zone is one iteration of the loop, giving    *)
(* the report and the number of record_pass / record_fail calls it made.   *)
(* End is the part after the loop.                                         *)
(***************************************************************************)
Go(r) == [report |-> r, next |-> "loop"]
Ret(r) == [report |-> r, next |-> "return"]
Exc(r, e) == [report |-> r, next |-> "raise", raised |-> e]
Did(r, n) == [report |-> r, judged |-> n]
DidRaise(r, e) == [report |-> r, judged |-> 0, raised |-> e]

\* for zone in zones: report.add(zone.name, technique_name, data)
RECURSIVE AddForAll(_, _, _, _)
AddForAll(r, zs, technique_name, data) ==
  IF zs = <<>> THEN r
  ELSE AddForAll(Add(r, Head(zs).name, technique_name, data), Tail(zs),
                 technique_name, data)

RefRequired == [error |-> "--ref reference image required"]

\* census.run
CensusZone(r, z, a) ==
  Did(Add(r, z.name, "census", [top |-> z.image.top, samples |-> z.image.w * z.image.h]), 0)

\* census_diff.run, to the loop
CensusDiffBegin(r, zs, a) ==
  IF NoRef(a) THEN Ret(AddForAll(r, zs, "census-diff", RefRequired))
  ELSE IF ~RefOpens(a) THEN Exc(r, "FileNotFoundError")
  ELSE Go(r)

\* SHIFT_THRESHOLD = 5.0
SHIFT_THRESHOLD == 50

Abs(n) == IF n < 0 THEN -n ELSE n

Names(census) == {census[k].name : k \in 1..Len(census)}

\* census.get(colour, 0.0)
PctOf(census, colour) ==
  IF colour \in Names(census)
  THEN census[CHOOSE k \in 1..Len(census) : census[k].name = colour].pct
  ELSE 0

\* The smaller of two one-decimal numbers 5.0 apart whose difference, taken
\* in binary floating point, is 4.999999999999999.
FloatShort ==
  {32 + 5 * k : k \in 0..9} \cup {114 + 5 * k : k \in 0..9}
    \cup {273 + 5 * k : k \in 0..9} \cup {591 + 5 * k : k \in 0..9}

\* delta = cur_pct - ref_pct; abs(delta) >= SHIFT_THRESHOLD
Shifted(ref_pct, cur_pct) ==
  /\ Abs(cur_pct - ref_pct) >= SHIFT_THRESHOLD
  /\ ~(/\ Abs(cur_pct - ref_pct) = 50
        /\ (IF ref_pct < cur_pct THEN ref_pct ELSE cur_pct) \in FloatShort)

Shift(colour, ref_pct, cur_pct) ==
  [colour |-> colour, ref_pct |-> ref_pct, cur_pct |-> cur_pct,
   delta |-> cur_pct - ref_pct]

RECURSIVE ByMagnitude(_)
\* shifts.sort(key=lambda x: -abs(x['delta'])); among equal magnitudes the
\* order is that of the set of names, taken here as the names' order
ByMagnitude(shifts) ==
  IF shifts = {} THEN <<>>
  ELSE LET first == CHOOSE x \in shifts :
                      \A y \in shifts \ {x} :
                        \/ Abs(x.delta) > Abs(y.delta)
                        \/ Abs(x.delta) = Abs(y.delta) /\ StrLess(x.colour, y.colour)
       IN <<first>> \o ByMagnitude(shifts \ {first})

\* census_diff._compute_shifts
ComputeShifts(ref, cur) ==
  ByMagnitude({Shift(c, PctOf(ref, c), PctOf(cur, c)) :
                 c \in {n \in Names(ref) \cup Names(cur) :
                          Shifted(PctOf(ref, n), PctOf(cur, n))}})

\* list(census.items())[:5]
FirstFive(census) == SubSeq(census, 1, IF Len(census) < 5 THEN Len(census) ELSE 5)

\* census_diff.run, the loop
CensusDiffZone(r, z, a) ==
  LET dominant_changed == z.image.ref_top # z.image.top
      added == Add(r, z.name, "census-diff",
                   [ref_top |-> FirstFive(z.image.ref_census),
                    cur_top |-> FirstFive(z.image.census),
                    shifts |-> ComputeShifts(z.image.ref_census, z.image.census),
                    dominant_changed |-> dominant_changed])
  IN Did(IF dominant_changed THEN RecordFail(added, z.name)
         ELSE RecordPass(added, z.name), 1)

\* passed = dist < 20
ColourThreshold == 20

RECURSIVE Root(_, _, _)
\* The largest t in lo..hi with (2t - 1)^2 <= 400 n
Root(n, lo, hi) ==
  IF lo = hi THEN lo
  ELSE LET mid == (lo + hi + 1) \div 2
       IN IF (2 * mid - 1) * (2 * mid - 1) <= 400 * n THEN Root(n, mid, hi)
          ELSE Root(n, lo, mid - 1)

\* round(dist, 1) of the distance whose square is n, in tenths
RoundedDistance(n) == Root(n, 0, 4417)

\* colours._extract_dominant: the clusters, most frequent first.  Of a crop
\* of no pixel the clustering library refuses to make clusters, and the
\* histogram fallback finds none.
ExtractDominant(z, a) ==
  IF z.image.w * z.image.h = 0
  THEN IF a.sklearn THEN ValueError ELSE [value |-> <<>>]
  ELSE [value |-> <<z.image.top>>]

\* passed = dist < 20
Passed(dist_sq) == dist_sq < ColourThreshold * ColourThreshold

\* colours.run
ColoursZone(r, z, a) ==
  LET dominant == ExtractDominant(z, a)
  IN IF Raised(dominant) THEN DidRaise(r, dominant.raised)
     ELSE IF z.expected_bg # None /\ dominant.value # <<>>
     THEN LET passed == Passed(z.image.dist_sq)
              data == [dominant |-> dominant.value, expected_bg |-> z.expected_bg,
                       actual_bg |-> dominant.value[1],
                       distance |-> RoundedDistance(z.image.dist_sq),
                       pass |-> passed]
              judged == IF passed THEN RecordPass(r, z.name) ELSE RecordFail(r, z.name)
          IN Did(Add(judged, z.name, "colours", data), 1)
     ELSE Did(Add(r, z.name, "colours", [dominant |-> dominant.value]), 0)

\* compare.run, to the loop
CompareBegin(r, zs, a) ==
  IF NoRef(a) THEN Ret(AddForAll(r, zs, "compare", RefRequired))
  ELSE IF ~RefOpens(a) THEN Exc(r, "FileNotFoundError")
  ELSE IF ~Writable(a) THEN Exc(r, "PermissionError")
  ELSE Go(r)

\* compare.run, the loop
CompareZone(r, z, a) ==
  Did(Add(r, z.name, "compare",
          [mismatch_pct |-> IF z.image.ref_top = z.image.top THEN 0 ELSE 1000,
           diff_image |-> z.name]), 0)

\* compare.run, after the loop: total_pixels > 0
CompareEnd(r, zs, a) ==
  IF \E i \in 1..Len(zs) : zs[i].image.w * zs[i].image.h > 0
  THEN Add(r, "_overall", "compare", [mismatch_pct |-> 0])
  ELSE r

\* A plausible slip: the non-blank flag alone starts no vertical check.
CheckAssertionsNoFlag(z) ==
  LET asr == z.assertions
      v == IF asr.min_transitions_v # NoThreshold
           THEN << [check |-> "min_transitions_v",
                    pass |-> z.image.v_avg >= asr.min_transitions_v] >>
           ELSE <<>>
      h == IF asr.min_transitions_h # NoThreshold
           THEN << [check |-> "min_transitions_h",
                    pass |-> z.image.h_avg >= asr.min_transitions_h] >>
           ELSE <<>>
  IN IF asr = NoAssert THEN <<>> ELSE v \o h

\* lines._check_assertions: the checks evaluated, as [check, pass]
CheckAssertions(z) ==
  LET asr == z.assertions
      v == IF asr.non_blank \/ asr.min_transitions_v # NoThreshold
           THEN << [check |-> "min_transitions_v",
                    pass |-> z.image.v_avg >=
                               (IF asr.min_transitions_v # NoThreshold
                                THEN asr.min_transitions_v ELSE 10)] >>
           ELSE <<>>
      h == IF asr.min_transitions_h # NoThreshold
           THEN << [check |-> "min_transitions_h",
                    pass |-> z.image.h_avg >= asr.min_transitions_h] >>
           ELSE <<>>
  IN IF asr = NoAssert THEN <<>> ELSE v \o h

\* the record_pass / record_fail calls of lines._check_assertions
RECURSIVE RecordChecks(_, _, _)
RecordChecks(r, zone_name, checks) ==
  IF checks = <<>> THEN r
  ELSE RecordChecks(IF Head(checks).pass THEN RecordPass(r, zone_name)
                    ELSE RecordFail(r, zone_name), zone_name, Tail(checks))

\* lines.run
LinesZone(r, z, a) ==
  IF z.image.h < 2 \/ z.image.w < 2
  THEN Did(Add(r, z.name, "lines", [h_avg_transitions |-> 0, v_avg_transitions |-> 0]), 0)
  ELSE LET checks == CheckAssertions(z)
           base == [h_avg_transitions |-> z.image.h_avg,
                    v_avg_transitions |-> z.image.v_avg]
           data == IF checks # <<>> THEN base @@ [assertions |-> checks] ELSE base
       IN Did(Add(RecordChecks(r, z.name, checks), z.name, "lines", data), Len(checks))

\* (getattr(args, 'provider', None) or 'groq').lower()
LlmProvider(a) == IF a.provider = None THEN "groq" ELSE a.provider

\* The providers with a default URL and model; no <PROVIDER>_API_URL or
\* <PROVIDER>_MODEL is taken to be set in the environment.
KnownProviders == {"groq", "mistral", "openai"}

\* llm_vision.run, to the loop
LlmVisionBegin(r, zs, a) ==
  IF ~Writable(a) THEN Exc(r, "PermissionError")
  ELSE IF a.list_models
       THEN (IF ~a.api_key THEN Exc(r, "SystemExit") ELSE Ret(r))
  ELSE IF ~a.api_key THEN Ret(r)
  ELSE IF LlmProvider(a) \notin KnownProviders THEN Ret(r)
  ELSE Go(r)

\* llm_vision.run, the loop: one remote call per zone
LlmVisionZone(r, z, a) ==
  Did(Add(r, z.name, "llm_vision",
          [text |-> IF a.remote_ok THEN "response" ELSE "error",
           model |-> "default", provider |-> LlmProvider(a)]), 0)

\* ocr.run, to the loop
OcrBegin(r, zs, a) ==
  IF a.tesseract = "not installed"
  THEN Ret(AddForAll(r, zs, "ocr", [error |-> "pytesseract not installed"]))
  ELSE Go(r)

\* ocr.run, the loop
OcrZone(r, z, a) ==
  IF a.tesseract = "fails"
  THEN Did(Add(r, z.name, "ocr", [error |-> "tesseract failed"]), 0)
  ELSE Did(Add(r, z.name, "ocr", [texts |-> <<>>, detail |-> <<>>]), 0)

\* A plausible slip: the number of regions found is held against min_regions.
RegionsZoneChecked(r, z, a) ==
  LET count == IF z.image.h < 10 \/ z.image.w < 10 THEN 0 ELSE 1
      found == IF count = 0 THEN <<>> ELSE <<z.image.top>>
      added == Add(r, z.name, "regions", [count |-> count, regions |-> found])
  IN IF z.assertions = NoAssert THEN Did(added, 0)
     ELSE IF z.assertions.min_regions = NoThreshold THEN Did(added, 0)
     ELSE IF count >= z.assertions.min_regions THEN Did(RecordPass(added, z.name), 1)
     ELSE Did(RecordFail(added, z.name), 1)

\* regions.run
RegionsZone(r, z, a) ==
  IF z.image.h < 10 \/ z.image.w < 10
  THEN Did(Add(r, z.name, "regions", [count |-> 0, regions |-> <<>>]), 0)
  ELSE Did(Add(r, z.name, "regions", [count |-> 1, regions |-> <<z.image.top>>]), 0)

\* zones.run, to the loop
ZonesBegin(r, zs, a) ==
  IF ~Writable(a) THEN Exc(r, "PermissionError") ELSE Go(r)

\* zones.run, the loop
ZonesZone(r, z, a) ==
  Did(Add(r, z.name, "zones",
          [file |-> z.name, width |-> z.image.w, height |-> z.image.h]), 0)

\* The techniques that run a loop of their own over the zones.
Basic ==
  {"census", "census-diff", "colours", "compare", "lines", "llm_vision", "ocr",
   "regions", "zones"}

Begin(t, r, zs, a) ==
  CASE t = "census-diff" -> CensusDiffBegin(r, zs, a)
    [] t = "compare" -> CompareBegin(r, zs, a)
    [] t = "llm_vision" -> LlmVisionBegin(r, zs, a)
    [] t = "ocr" -> OcrBegin(r, zs, a)
    [] t = "zones" -> ZonesBegin(r, zs, a)
    [] OTHER -> Go(r)

Zone(t, r, z, a) ==
  CASE t = "census" -> CensusZone(r, z, a)
    [] t = "census-diff" -> CensusDiffZone(r, z, a)
    [] t = "colours" -> ColoursZone(r, z, a)
    [] t = "compare" -> CompareZone(r, z, a)
    [] t = "lines" -> LinesZone(r, z, a)
    [] t = "llm_vision" -> LlmVisionZone(r, z, a)
    [] t = "ocr" -> OcrZone(r, z, a)
    [] t = "regions" -> RegionsZone(r, z, a)
    [] t = "zones" -> ZonesZone(r, z, a)

End(t, r, zs, a) ==
  IF t = "compare" THEN CompareEnd(r, zs, a) ELSE r

(***************************************************************************)
(* A run: Technique.execute on the technique the options name, as main and *)
(* the tests make it, on a report holding the bounds of the zones.  A      *)
(* stack frame is [tech, i, names]: for a technique with a zone loop, i is *)
(* the zone it is at; for 'all', names is sorted(all_techniques().items()) *)
(* and i the entry it is at; for 'verify', i is 1 before it runs 'all' and *)
(* 2 after.  No run function catches an exception of a technique it calls: *)
(* an exception unwinds the whole stack.                                   *)
(***************************************************************************)
\* A plausible slip: transition scanning is left out of the composite too.
SkipWithLines == {"all", "verify", "ocr", "compare", "lines"}

\* A plausible slip: the composite runs the LLM verification too.
SkipWithoutVerify == {"all", "ocr", "compare"}

\* all.SKIP
SKIP == {"all", "verify", "ocr", "compare"}

\* has_ref = hasattr(args, 'ref') and args.ref
HasRef(a) == a.ref \notin {None, ""}

\* A plausible slip: census-diff is skipped whatever the options say.
AllSkipsDiff(name, a) == name \in SKIP \/ name = "census-diff"

\* The `continue`s of all.run
AllSkips(name, a) ==
  \/ name \in SKIP
  \/ name = "census-diff" /\ ~HasRef(a)

\* The deepest call stack explored, standing for Python's recursion limit.
MaxDepth == 4

Frame(t, names) == [tech |-> t, i |-> 1, names |-> names]

Top == stack[Len(stack)]
Advanced == [stack EXCEPT ![Len(stack)].i = @ + 1]
Popped == SubSeq(stack, 1, Len(stack) - 1)

Event(ev, t, by) == [ev |-> ev, tech |-> t, by |-> by]

\* A plausible slip: sorted(..., reverse=True).
AllOrderDescending(reg) == SortedDescending(DOMAIN reg)

\* The order in which all.run takes the registered names.
\* sorted(all_techniques().items())
AllOrder(reg) == Sorted(DOMAIN reg)

\* Technique.execute(zones, report, args) of technique t, called from `by`
\* with the stack stk: the run function up to its first loop iteration.
Invoke(stk, t, by) ==
  LET started == Append(events, Event("start", t, by))
      running == [report |-> report, status |-> "running", events |-> started,
                  exc |-> None]
  IN IF Len(stk) >= MaxDepth
     THEN [running EXCEPT !.status = "raised", !.exc = "RecursionError",
             !.events = Append(started, Event("raise", t, by))]
          @@ [stack |-> <<>>]
     ELSE IF t = "all"
     THEN running @@ [stack |-> Append(stk, Frame(t, AllOrder(registry)))]
     ELSE IF t = "verify"
     THEN running @@ [stack |-> Append(stk, Frame(t, <<>>))]
     ELSE LET b == Begin(t, report, zones, args)
          IN CASE b.next = "loop" ->
                    [running EXCEPT !.report = b.report]
                    @@ [stack |-> Append(stk, Frame(t, <<>>))]
               [] b.next = "return" ->
                    [running EXCEPT !.report = b.report,
                       !.status = IF stk = <<>> THEN "returned" ELSE "running",
                       !.events = Append(started, Event("end", t, by))]
                    @@ [stack |-> stk]
               [] b.next = "raise" ->
                    [running EXCEPT !.status = "raised", !.exc = b.raised,
                       !.events = Append(started, Event("raise", t, by))]
                    @@ [stack |-> <<>>]

Step(t, op, judged, exc) == [tech |-> t, op |-> op, judged |-> judged, exc |-> exc]

Becomes(out, t) ==
  /\ stack' = out.stack
  /\ report' = out.report
  /\ status' = out.status
  /\ events' = out.events
  /\ last' = Step(t, "execute", 0, out.exc)

Returns ==
  /\ stack' = Popped
  /\ status' = IF Popped = <<>> THEN "returned" ELSE "running"
  /\ events' = Append(events, Event("end", Top.tech,
                                    IF Popped = <<>> THEN "main"
                                    ELSE Popped[Len(Popped)].tech))

\* The technique names main's parser accepts: the registered ones.
Options(reg) ==
  LET base == [technique |-> "census", ref |-> None, tmp_dir |-> "./tmp",
               gux |-> "page.gux", provider |-> None, api_key |-> FALSE,
               list_models |-> FALSE, remote_ok |-> TRUE, tesseract |-> "works",
               sklearn |-> TRUE, fail_on_delta |-> NoThreshold]
      Refs == {None, "", "ref.png", "missing.png"}
      Dirs == {"./tmp", "/readonly"}
      Deltas == {NoThreshold, 200, 250}
  IN { a \in
       {[base EXCEPT !.technique = t] : t \in {"census", "lines", "regions"}}
       \cup {[base EXCEPT !.technique = "colours", !.sklearn = sk, !.fail_on_delta = n]
               : sk \in BOOLEAN, n \in Deltas}
       \cup {[base EXCEPT !.technique = "all", !.ref = r, !.tmp_dir = d,
                !.api_key = k, !.remote_ok = k /\ ok, !.fail_on_delta = n]
               : r \in Refs, d \in Dirs, k \in BOOLEAN, ok \in BOOLEAN,
                 n \in {NoThreshold, 200}}
       \cup {[base EXCEPT !.technique = "verify", !.ref = r, !.tmp_dir = d,
                !.api_key = k, !.remote_ok = k /\ ok, !.gux = g, !.fail_on_delta = n]
               : r \in {None, "ref.png"}, d \in Dirs, k \in BOOLEAN, ok \in BOOLEAN,
                 g \in {None, "page.gux"}, n \in {NoThreshold, 200}}
       \cup {[base EXCEPT !.technique = "census-diff", !.ref = r] : r \in Refs}
       \cup {[base EXCEPT !.technique = "compare", !.ref = r, !.tmp_dir = d]
               : r \in Refs, d \in Dirs}
       \cup {[base EXCEPT !.technique = "zones", !.tmp_dir = d] : d \in Dirs}
       \cup {[base EXCEPT !.technique = "ocr", !.tesseract = x]
               : x \in {"not installed", "fails", "works"}}
       \cup {[base EXCEPT !.technique = "llm_vision", !.tmp_dir = d, !.api_key = k,
                !.provider = pr, !.list_models = lm, !.remote_ok = k /\ ok]
               : d \in Dirs, k \in BOOLEAN, pr \in {None, "anthropic"},
                 lm \in BOOLEAN, ok \in BOOLEAN}
       : a.technique \in DOMAIN reg }

\* for z in zones: report.set_bounds(z.name, z.bounds)
RECURSIVE WithBounds(_, _)
WithBounds(r, zs) ==
  IF zs = <<>> THEN r
  ELSE WithBounds(SetBounds(r, Head(zs).name, Head(zs).bounds), Tail(zs))

RunInit ==
  /\ package \in {RepoPackage, <<>>}
  /\ registry = Discover(EmptyDict, package)
  /\ cli = [op |-> "import"]
  /\ args \in Options(registry)
  /\ zones \in CropLists(args.technique)
  /\ report = WithBounds(NewReport, zones)
  /\ stack = <<>>
  /\ status = "ready"
  /\ events = <<>>
  /\ last = Step("main", "set_bounds", 0, None)
  /\ ReportIdle /\ ParseIdle /\ EnvIdle /\ ScanIdle

idleInRun == <<regVars, call, written, args, zones, parseVars, scanVars, envVars>>

\* main: tech = registry.get(args.technique); tech.execute(zones, report, args)
Execute ==
  /\ status = "ready"
  /\ Becomes(Invoke(<<>>, Get(args.technique, registry).name, "main"),
             args.technique)
  /\ UNCHANGED idleInRun

\* all.run: `continue`
AllSkip ==
  /\ status = "running" /\ Top.tech = "all" /\ Top.i <= Len(Top.names)
  /\ AllSkips(Top.names[Top.i], args)
  /\ stack' = Advanced
  /\ last' = Step("all", "skip", 0, None)
  /\ UNCHANGED <<report, status, events, idleInRun>>

\* all.run: tech.execute(zones, report, args)
AllExecute ==
  /\ status = "running" /\ Top.tech = "all" /\ Top.i <= Len(Top.names)
  /\ ~AllSkips(Top.names[Top.i], args)
  /\ Becomes(Invoke(Advanced, registry[Top.names[Top.i]].name, "all"),
             Top.names[Top.i])
  /\ UNCHANGED idleInRun

\* all.run: the loop is over
AllReturn ==
  /\ status = "running" /\ Top.tech = "all" /\ Top.i > Len(Top.names)
  /\ Returns
  /\ last' = Step("all", "return", 0, None)
  /\ UNCHANGED <<report, idleInRun>>

\* verify.run: get_technique('all').execute(zones, report, args)
VerifyRunAll ==
  /\ status = "running" /\ Top.tech = "verify" /\ Top.i = 1
  /\ Becomes(Invoke(Advanced, Get("all", registry).name, "verify"), "all")
  /\ UNCHANGED idleInRun

\* verify.run after 'all': the early returns, then the remote call, whose
\* exceptions nothing catches.
VerifyCall ==
  /\ status = "running" /\ Top.tech = "verify" /\ Top.i = 2
  /\ IF args.gux # None /\ args.api_key /\ ~args.remote_ok
     THEN /\ stack' = <<>>
          /\ status' = "raised"
          /\ events' = Append(events, Event("raise", "verify", "main"))
          /\ last' = Step("verify", "call", 0, "APIError")
     ELSE /\ Returns
          /\ last' = Step("verify", "call", 0, None)
  /\ UNCHANGED <<report, idleInRun>>

\* One iteration of a technique's loop over the zones.
ZoneStep ==
  /\ status = "running" /\ Top.tech \in Basic /\ Top.i <= Len(zones)
  /\ LET did == Zone(Top.tech, report, zones[Top.i], args)
     IN /\ report' = did.report
        /\ IF Raised(did)
           THEN /\ last' = Step(Top.tech, "zone", 0, did.raised)
                /\ stack' = <<>>
                /\ status' = "raised"
                /\ events' = Append(events, Event("raise", Top.tech,
                                                  IF Popped = <<>> THEN "main"
                                                  ELSE Popped[Len(Popped)].tech))
           ELSE /\ last' = Step(Top.tech, "zone", did.judged, None)
                /\ stack' = Advanced
                /\ UNCHANGED <<status, events>>
  /\ UNCHANGED idleInRun

\* The end of a technique's run function, after its loop.
Return ==
  /\ status = "running" /\ Top.tech \in Basic /\ Top.i > Len(zones)
  /\ report' = End(Top.tech, report, zones, args)
  /\ Returns
  /\ last' = Step(Top.tech, "return", 0, None)
  /\ UNCHANGED idleInRun

\* __main__._check_fail_on_delta
CheckFailOnDelta(r, threshold) ==
  \E n \in DOMAIN r.zones :
    /\ HasPayload(r, n, "colours")
    /\ "distance" \in DOMAIN r.zones[n].techniques["colours"]
    /\ r.zones[n].techniques["colours"].distance > threshold

\* main: the output of the report; of a verify run main prints nothing
Output ==
  /\ status = "returned"
  /\ status' = "output"
  /\ events' = IF args.technique = "verify" THEN events
               ELSE Append(events, Event("output", args.technique, "main"))
  /\ last' = Step("main", "output", 0, None)
  /\ UNCHANGED <<report, stack, idleInRun>>

\* main: the CI gate, sys.exit(1) or the end of main
Gate ==
  /\ status = "output"
  /\ status' = IF /\ args.fail_on_delta # NoThreshold
                  /\ CheckFailOnDelta(report, args.fail_on_delta)
               THEN "exit 1" ELSE "exit 0"
  /\ last' = Step("main", "gate", 0, None)
  /\ UNCHANGED <<report, stack, events, idleInRun>>

Next ==
  \/ Execute \/ AllSkip \/ AllExecute \/ AllReturn \/ VerifyRunAll \/ VerifyCall
  \/ ZoneStep \/ Return \/ Output \/ Gate

Init == RunInit

Spec == Init /\ [][Next]_vars

\* The runs over at most one zone; main runs to its end, no step of it
\* waiting for another process.
LiveInit == RunInit /\ Len(zones) <= 1

SpecLive == LiveInit /\ [][Next]_vars /\ WF_vars(Next)

\* The events of the techniques the composite executed.
ByAll(k) == events[k].by = "all"
Starts == {k \in 1..Len(events) : events[k].ev = "start" /\ ByAll(k)}

\* The composite has run and is no longer executing.
AllEnded ==
  /\ \E k \in 1..Len(events) : events[k].ev = "start" /\ events[k].tech = "all"
  /\ \A f \in 1..Len(stack) : stack[f].tech # "all"

(***************************************************************************)
(* C1.  During a composite ('all') run, if a technique it invokes raises,  *)
(* the exception does not propagate out of the composite: an {error: ...}  *)
(* payload is recorded for the affected zones and every remaining          *)
(* non-skipped technique still executes.                                   *)
(***************************************************************************)
C1_CompositeCatchesFailures ==
  \A k \in 1..Len(events) :
    (events[k].ev = "raise" /\ ByAll(k)) =>
      /\ status # "raised"
      /\ AllEnded =>
           /\ \A z \in 1..Len(zones) :
                /\ HasPayload(report, zones[z].name, events[k].tech)
                /\ "error" \in DOMAIN report.zones[zones[z].name].techniques[events[k].tech]
           /\ \A t \in DOMAIN registry :
                ~AllSkips(t, args) => \E j \in Starts : events[j].tech = t

(***************************************************************************)
(* C2.  The composite never invokes itself, the OCR technique, or a        *)
(* technique that calls a remote language-model API (verify, llm_vision).  *)
(***************************************************************************)
C2_NeverAutomatic ==
  \A k \in Starts : events[k].tech \notin {"all", "ocr", "verify", "llm_vision"}

C5_MissingRefIsPayload ==
  (args.technique \in {"census-diff", "compare"} /\ args.ref = None /\ status # "ready") =>
    /\ status \in {"returned", "output", "exit 0", "exit 1"}
    /\ \A z \in 1..Len(zones) :
         /\ HasPayload(report, zones[z].name, args.technique)
         /\ report.zones[zones[z].name].techniques[args.technique] = RefRequired
    /\ report.pass_count = 0 /\ report.fail_count = 0

\* compare has returned from a run with no reference over two zones.
C5_Witness ==
  /\ args.technique = "compare" /\ args.ref = None /\ status = "returned"
  /\ Len(zones) = 2

(***************************************************************************)
(* C6.  In one composite run the invoked techniques execute strictly one   *)
(* after another in ascending alphabetical order of their registered       *)
(* names, each at most once, and a technique starts only after the         *)
(* previous one has finished all zones.                                    *)
(***************************************************************************)
C6_AlphabeticalOneAtATime ==
  /\ \A j, k \in Starts :
       j < k =>
         /\ StrLess(events[j].tech, events[k].tech)
         /\ \E e \in (j + 1)..(k - 1) :
              events[e].ev = "end" /\ events[e].tech = events[j].tech
  /\ \A f \in 1..Len(stack) :
       (stack[f].tech = "all" /\ f < Len(stack)) =>
         /\ f + 1 = Len(stack)
         /\ stack[f + 1].tech \in Basic
         /\ stack[f + 1].tech = stack[f].names[stack[f].i - 1]
  /\ \A k \in 1..Len(events) :
       (events[k].ev = "end" /\ ByAll(k) /\ events[k].tech # "llm_vision") =>
         \A z \in 1..Len(zones) : HasPayload(report, zones[z].name, events[k].tech)

\* A finished composite run with a reference image that executed seven
\* techniques over two zones.
C6_Witness ==
  /\ status = "returned" /\ Len(zones) = 2
  /\ Cardinality(Starts) = 7

(***************************************************************************)
(* C9.  pass_count and fail_count never decrease, each record_pass /       *)
(* record_fail call raises exactly one of them by exactly one, and the     *)
(* techniques that make no pass/fail judgement (census, regions, zones,    *)
(* compare) leave both counters unchanged.                                 *)
(***************************************************************************)
C9_CountersStep ==
  /\ report'.pass_count >= report.pass_count
  /\ report'.fail_count >= report.fail_count
  /\ (report'.pass_count + report'.fail_count)
       - (report.pass_count + report.fail_count) = last'.judged
  /\ last'.tech \in {"census", "regions", "zones", "compare"} =>
       /\ report'.pass_count = report.pass_count
       /\ report'.fail_count = report.fail_count

C9_CountersMonotone == [][C9_CountersStep]_vars

\* Transition scanning has just evaluated two checks on a zone, in a report
\* that already counts a pass and a fail.
C9_Witness ==
  /\ last.tech = "lines" /\ last.judged = 2
  /\ report.pass_count >= 2 /\ report.fail_count >= 1

(***************************************************************************)
(* The Report under arbitrary calls.                                       *)
(***************************************************************************)

\* The largest number of record_pass / record_fail calls explored.
MaxCount == 2

ApiZones == {"header", "main"}
ApiTechniques == {"colours", "lines"}
ApiPayloads == {[error |-> "failed"], [samples |-> 2]}
ApiBounds == {<<0, 0, 8, 5>>}

ReportInit ==
  /\ report = NewReport
  /\ call = [op |-> "new"]
  /\ written = EmptyDict
  /\ RegIdle /\ RunIdle /\ ParseIdle /\ EnvIdle /\ ScanIdle

CallAdd ==
  \E z \in ApiZones, t \in ApiTechniques, d \in ApiPayloads :
    /\ report' = Add(report, z, t, d)
    /\ call' = [op |-> "add", zone |-> z, technique |-> t, data |-> d]
    /\ written' = [k \in DOMAIN written \cup {<<z, t>>} |->
                     IF k = <<z, t>> THEN d ELSE written[k]]
    /\ UNCHANGED <<regVars, runVars, parseVars, scanVars, envVars>>

CallSetBounds ==
  \E z \in ApiZones, b \in ApiBounds :
    /\ report' = SetBounds(report, z, b)
    /\ call' = [op |-> "set_bounds", zone |-> z, bounds |-> b]
    /\ UNCHANGED <<written, regVars, runVars, parseVars, scanVars, envVars>>

CallRecordPass ==
  \E z \in ApiZones :
    /\ report.pass_count + report.fail_count < MaxCount
    /\ report' = RecordPass(report, z)
    /\ call' = [op |-> "record_pass", zone |-> z]
    /\ UNCHANGED <<written, regVars, runVars, parseVars, scanVars, envVars>>

CallRecordFail ==
  \E z \in ApiZones :
    /\ report.pass_count + report.fail_count < MaxCount
    /\ report' = RecordFail(report, z)
    /\ call' = [op |-> "record_fail", zone |-> z]
    /\ UNCHANGED <<written, regVars, runVars, parseVars, scanVars, envVars>>

ReportNext == CallAdd \/ CallSetBounds \/ CallRecordPass \/ CallRecordFail

SpecReport == ReportInit /\ [][ReportNext]_vars

IsPrefix(s, t) == Len(s) <= Len(t) /\ \A i \in 1..Len(s) : s[i] = t[i]

(***************************************************************************)
(* C8.  After any sequence of add / set_bounds / record_pass / record_fail *)
(* calls the payload stored for a (zone, technique) pair is exactly the    *)
(* payload of the most recent add for that pair, and an add changes        *)
(* nothing else: no other payload, no existing bounds, neither counter; a  *)
(* zone entry first created by add has null bounds.                        *)
(***************************************************************************)
C8_LastWrite ==
  /\ \A k \in DOMAIN written :
       /\ HasPayload(report, k[1], k[2])
       /\ report.zones[k[1]].techniques[k[2]] = written[k]
  /\ \A z \in DOMAIN report.zones : \A t \in DOMAIN report.zones[z].techniques :
       <<z, t>> \in DOMAIN written

C8_AddFrame ==
  call'.op = "add" =>
    LET z == call'.zone
        t == call'.technique
    IN /\ report'.pass_count = report.pass_count
       /\ report'.fail_count = report.fail_count
       /\ DOMAIN report'.zones = DOMAIN report.zones \cup {z}
       /\ IsPrefix(report.order, report'.order)
       /\ z \notin DOMAIN report.zones => report'.zones[z].bounds = NoBounds
       /\ \A y \in DOMAIN report.zones :
            /\ report'.zones[y].bounds = report.zones[y].bounds
            /\ \A u \in DOMAIN report.zones[y].techniques :
                 /\ u \in DOMAIN report'.zones[y].techniques
                 /\ (y # z \/ u # t) =>
                      report'.zones[y].techniques[u] = report.zones[y].techniques[u]
       /\ \A y \in DOMAIN report'.zones :
            DOMAIN report'.zones[y].techniques =
              DOMAIN Payloads(report, y) \cup (IF y = z THEN {t} ELSE {})

C8_AddOverwritesOnly == []C8_LastWrite /\ [][C8_AddFrame]_vars

\* An add that overwrote an earlier payload of the same pair, in a report
\* holding another technique's payload, bounds and counts.
C8_Witness ==
  /\ call.op = "add"
  /\ call.data = [samples |-> 2]
  /\ HasPayload(report, call.zone, "lines") /\ HasPayload(report, call.zone, "colours")
  /\ report.zones[call.zone].bounds # NoBounds
  /\ report.pass_count = 1 /\ report.fail_count = 1

(***************************************************************************)
(* The .gux parser (core/gux_parser.py).  A text is a sequence of tokens,  *)
(* one per line; a token is a piece of text that one of the parser's       *)
(* regular expressions either matches as a whole or does not match.        *)
(* A run of decimal digits is [digit, repeat]: `repeat' copies of `digit'. *)
(***************************************************************************)
Digits(d, n) == [digit |-> d, repeat |-> n]

\* Page('name'   -- an empty name is not matched by [^']+
PageTok(name) == [t |-> "Page", name |-> name]
\* Viewport(w, h)   -- closed: the closing parenthesis is there
ViewportTok(w, h, closed) == [t |-> "Viewport", w |-> w, h |-> h, closed |-> closed]
\* Zone('name',
ZoneTok(name) == [t |-> "Zone", name |-> name]
\* Bounds(a, b, ...)
BoundsTok(nums) == [t |-> "Bounds", nums |-> nums]
\* )
CloseTok == [t |-> ")"]
\* style: Style(bg: '#ffffff')   bg = [quoted |-> "#ffffff"]
\* style: Style(bg: tw.white)    bg = [tw |-> "tw.white"]
\* style: Style(fg: '#000000')   bg = [none |-> TRUE]
StyleTok(bg) == [t |-> "Style", bg |-> bg]
\* assert: Assert(key: value, ...)   fields: the [key, val] in textual order;
\* a value is a number [whole, frac] (frac of no digit: an integer) or a
\* word [word]
AssertTok(fields) == [t |-> "Assert", fields |-> fields]
Field(key, val) == [key |-> key, val |-> val]
Number(whole, frac) == [whole |-> whole, frac |-> frac]
Word(w) == [word |-> w]
\* /// line
DocTok(line) == [t |-> "Doc", line |-> line]
\* An empty line.
BlankTok == [t |-> "Blank"]

RECURSIVE SumRepeat(_)
SumRepeat(nums) ==
  IF nums = <<>> THEN 0 ELSE Head(nums).repeat + SumRepeat(Tail(nums))

\* The number of characters of the value of a field.
ValChars(val) ==
  IF "word" \in DOMAIN val THEN Len(val.word)
  ELSE val.whole.repeat + (IF val.frac.repeat > 0 THEN Len(".") + val.frac.repeat ELSE 0)

RECURSIVE FieldChars(_)
FieldChars(fields) ==
  IF fields = <<>> THEN 0
  ELSE Len(Head(fields).key) + Len(": ") + ValChars(Head(fields).val) + Len(", ")
       + FieldChars(Tail(fields))

\* The number of characters of a token.
Chars(tok) ==
  CASE tok.t = "Page"     -> Len("Page('") + Len(tok.name) + Len("'")
    [] tok.t = "Viewport" -> Len("Viewport(") + tok.w.repeat + Len(", ") + tok.h.repeat
                               + (IF tok.closed THEN Len(")") ELSE 0)
    [] tok.t = "Zone"     -> Len("Zone('") + Len(tok.name) + Len("',")
    [] tok.t = "Bounds"   -> Len("Bounds(") + SumRepeat(tok.nums)
                               + Len(", ") * (Len(tok.nums) - 1) + Len(")")
    [] tok.t = ")"        -> 1
    [] tok.t = "Style"    -> Len("style: Style(")
                               + (CASE "quoted" \in DOMAIN tok.bg ->
                                         Len("bg: '") + Len(tok.bg.quoted) + Len("'")
                                    [] "tw" \in DOMAIN tok.bg -> Len("bg: ") + Len(tok.bg.tw)
                                    [] OTHER -> Len("fg: '#000000'"))
                               + Len(")")
    [] tok.t = "Assert"   -> Len("assert: Assert(") + FieldChars(tok.fields) + Len(")")
    [] tok.t = "Doc"      -> Len("/// ") + Len(tok.line)
    [] tok.t = "Blank"    -> 0
    [] tok.t = "cut"      -> tok.keep

\* The line break after each token.
Newline == 1

\* What a token adds to the depth of open parentheses once it is read whole.
Depth(tok) ==
  CASE tok.t \in {"Page", "Zone"} -> 1
    [] tok.t = "Viewport"         -> IF tok.closed THEN 0 ELSE 1
    [] tok.t \in {"Bounds", "Style", "Assert", "Doc", "Blank"} -> 0
    [] tok.t = ")"                -> -1
    [] tok.t = "cut"              -> 0

\* sys.int_max_str_digits, the interpreter's default: int() of more decimal
\* digits than this raises ValueError.
MaxStrDigits == 4300

IntRaises(d) == d.repeat > MaxStrDigits

RECURSIVE IntValue(_)
\* int() of a run of digits no longer than MaxStrDigits
IntValue(d) ==
  IF d.repeat = 0 THEN 0
  ELSE 10 * IntValue(Digits(d.digit, d.repeat - 1)) + d.digit

Min(S) == CHOOSE x \in S : \A y \in S : x <= y

PageMatches(tok) == tok.t = "Page" /\ tok.name # ""
ViewportMatches(tok) == tok.t = "Viewport" /\ tok.closed
ZoneMatches(tok) == tok.t = "Zone" /\ tok.name # ""
BoundsMatches(tok) == tok.t = "Bounds" /\ Len(tok.nums) = 4
\* Style\([^)]*\bbg:\s*(?:['"]([^'"]+)['"]|(tw\.\w+))
StyleMatches(tok) ==
  /\ tok.t = "Style"
  /\ \/ "quoted" \in DOMAIN tok.bg /\ tok.bg.quoted # ""
     \/ "tw" \in DOMAIN tok.bg
\* assert\s*:\s*Assert\(([^)]+)\)
AssertMatches(tok) == tok.t = "Assert" /\ tok.fields # <<>>

\* The tokens of toks a pattern matches.
Hits(toks, pattern) ==
  {i \in 1..Len(toks) :
     CASE pattern = "Page" -> PageMatches(toks[i])
       [] pattern = "Viewport" -> ViewportMatches(toks[i])
       [] pattern = "Bounds" -> BoundsMatches(toks[i])
       [] pattern = "Style" -> StyleMatches(toks[i])
       [] pattern = "Assert" -> AssertMatches(toks[i])}

\* re.search: the first token the pattern matches, 0 when there is none.
Search(toks, pattern) ==
  IF Hits(toks, pattern) = {} THEN 0 ELSE Min(Hits(toks, pattern))

\* _extract_page_name
ExtractPageName(txt) ==
  LET m == Search(txt, "Page")
  IN IF m # 0 THEN txt[m].name ELSE None

NoMatch == [none |-> TRUE]

\* _extract_viewport
ExtractViewport(txt) ==
  LET m == Search(txt, "Viewport")
  IN IF m # 0
     THEN IF IntRaises(txt[m].w) \/ IntRaises(txt[m].h)
          THEN ValueError
          ELSE [value |-> <<IntValue(txt[m].w), IntValue(txt[m].h)>>]
     ELSE NoMatch

\* The safety limit of _extract_block, in characters.
BlockLimit == 2000

RECURSIVE Walk(_, _, _, _, _)
\* The loop of _extract_block from token i on: `used' characters of the block
\* are read and `depth' parentheses are open.
Walk(txt, start, i, used, depth) ==
  IF i > Len(txt) \/ used >= BlockLimit
  THEN SubSeq(txt, start, i - 1)
  ELSE IF used + Chars(txt[i]) > BlockLimit
  THEN Append(SubSeq(txt, start, i - 1),
              [t |-> "cut", of |-> txt[i].t, keep |-> BlockLimit - used])
  ELSE IF depth + Depth(txt[i]) = 0
  THEN SubSeq(txt, start, i)
  ELSE Walk(txt, start, i + 1, used + Chars(txt[i]) + Newline, depth + Depth(txt[i]))

RECURSIVE WalkUncapped(_, _, _, _)
WalkUncapped(txt, start, i, depth) ==
  IF i > Len(txt) THEN SubSeq(txt, start, i - 1)
  ELSE IF depth + Depth(txt[i]) = 0 THEN SubSeq(txt, start, i)
  ELSE WalkUncapped(txt, start, i + 1, depth + Depth(txt[i]))

\* A plausible slip: end = len(text).
ExtractBlockUncapped(txt, start) == WalkUncapped(txt, start, start, 0)

\* _extract_block
ExtractBlock(txt, start) == Walk(txt, start, start, 0, 0)

\* A plausible slip: the last Bounds(...) of the block instead of the first.
ExtractBoundsLast(block) ==
  LET hits == Hits(block, "Bounds")
  IN IF hits # {}
     THEN [value |-> [k \in 1..4 |-> IntValue(block[Max(hits)].nums[k])]]
     ELSE NoMatch

\* _extract_bounds
ExtractBounds(block) ==
  LET m == Search(block, "Bounds")
  IN IF m # 0
     THEN IF \E k \in 1..4 : IntRaises(block[m].nums[k])
          THEN ValueError
          ELSE [value |-> [k \in 1..4 |-> IntValue(block[m].nums[k])]]
     ELSE NoMatch

\* palette.resolve_tw: the hex value of a tw.name, None for an unknown name.
ResolveTw(token) ==
  CASE token = "tw.white" -> "#ffffff"
    [] token = "tw.slate50" -> "#f8fafc"
    [] token = "tw.blue600" -> "#2563eb"
    [] OTHER -> None

\* _extract_bg
ExtractBg(block) ==
  LET m == Search(block, "Style")
  IN IF m # 0
     THEN IF "quoted" \in DOMAIN block[m].bg THEN block[m].bg.quoted
          ELSE ResolveTw(block[m].bg.tw)
     ELSE None

\* The fields of inner that (\d+(?:\.\d+)?) or (\d+) matches after key
NumberFields(inner, key) ==
  {i \in 1..Len(inner) :
     /\ inner[i].key = key
     /\ "whole" \in DOMAIN inner[i].val
     /\ inner[i].val.whole.repeat > 0}

\* The fields of inner that (true|false) matches after key
FlagFields(inner, key) ==
  {i \in 1..Len(inner) :
     /\ inner[i].key = key
     /\ "word" \in DOMAIN inner[i].val
     /\ inner[i].val.word \in {"true", "false"}}

\* float() of a number with at most one digit after the point, in tenths
Float(val) == 10 * IntValue(val.whole) + IntValue(val.frac)

\* _extract_assert
ExtractAssert(block) ==
  LET m == Search(block, "Assert")
  IN IF m = 0 THEN NoAssert
     ELSE LET inner == block[m].fields
              mv == NumberFields(inner, "min_transitions_v")
              mh == NumberFields(inner, "min_transitions_h")
              mr == NumberFields(inner, "min_regions")
              nb == FlagFields(inner, "non_blank")
              found_any == mv # {} \/ mh # {} \/ mr # {} \/ nb # {}
          IN IF mr # {} /\ IntRaises(inner[Min(mr)].val.whole) THEN ValueError
             ELSE IF found_any
             THEN GuxAssert(
                    IF mv # {} THEN Float(inner[Min(mv)].val) ELSE NoThreshold,
                    IF mh # {} THEN Float(inner[Min(mh)].val) ELSE NoThreshold,
                    IF mr # {} THEN IntValue(inner[Min(mr)].val.whole) ELSE NoThreshold,
                    nb # {} /\ inner[Min(nb)].val.word = "true")
             ELSE NoAssert

RECURSIVE DocLines(_, _)
\* The loop of _extract_doc_comment: the /// lines that end at line i
DocLines(txt, i) ==
  IF i >= 1 /\ txt[i].t = "Doc"
  THEN Append(DocLines(txt, i - 1), txt[i].line)
  ELSE <<>>

RECURSIVE RStrip(_, _)
\* text[:zone_start].rstrip(): the last line before the marker that is not
\* empty, the marker's own indentation being stripped with the line breaks
RStrip(txt, i) ==
  IF i >= 1 /\ txt[i].t = "Blank" THEN RStrip(txt, i - 1) ELSE i

\* _extract_doc_comment: the lines that '\n' joins; <<>> is None
ExtractDocComment(txt, zone_start) == DocLines(txt, RStrip(txt, zone_start - 1))

\* GuxZone
GuxZone(name, bounds, expected_bg, doc, assertions) ==
  [name |-> name, bounds |-> bounds, expected_bg |-> expected_bg, doc |-> doc,
   assertions |-> assertions]

RECURSIVE ZonesFrom(_, _, _)
\* The loop of _extract_zones over the Zone(...) matches from token i on.
ZonesFrom(txt, i, zs) ==
  IF i > Len(txt) THEN [value |-> zs]
  ELSE IF ~ZoneMatches(txt[i]) THEN ZonesFrom(txt, i + 1, zs)
  ELSE LET block == ExtractBlock(txt, i)
           bounds == ExtractBounds(block)
           expected_bg == ExtractBg(block)
           doc == ExtractDocComment(txt, i)
           assertions == ExtractAssert(block)
       IN IF Raised(bounds) THEN bounds
          ELSE IF bounds = NoMatch THEN ZonesFrom(txt, i + 1, zs)
          ELSE IF Raised(assertions) THEN assertions
          ELSE ZonesFrom(txt, i + 1,
                         Append(zs, GuxZone(txt[i].name, bounds.value, expected_bg,
                                            doc, assertions)))

\* _extract_zones
ExtractZones(txt) == ZonesFrom(txt, 1, <<>>)

\* parse_gux_string
ParseGuxString(txt) ==
  LET name == ExtractPageName(txt)
      viewport == ExtractViewport(txt)
      zs == ExtractZones(txt)
  IN IF Raised(viewport) THEN viewport
     ELSE IF Raised(zs) THEN zs
     ELSE [page_name |-> IF name # None THEN name ELSE "unknown",
           viewport  |-> IF viewport # NoMatch THEN viewport.value ELSE <<0, 0>>,
           zones     |-> zs.value,
           raw       |-> txt]

(***************************************************************************)
(* The parser on every text of up to MaxTokens tokens, and on every text   *)
(* of a zone with bounds, after some lines, followed by up to MaxBlock     *)
(* tokens of styles, assertions, an inner zone and closing parentheses,     *)
(* and on every text of up to MaxDecls closed zone declarations.           *)
(***************************************************************************)
MaxTokens == 3
MaxBlock == 2
MaxDecls == 2

\* Bounds(0, 0, 88, 6), Bounds(0, 6, 88, 66), and a Bounds of three numbers
Bounds1 == BoundsTok(<<Digits(0, 1), Digits(0, 1), Digits(8, 2), Digits(6, 1)>>)
Bounds2 == BoundsTok(<<Digits(0, 1), Digits(6, 1), Digits(8, 2), Digits(6, 2)>>)
Bounds3 == BoundsTok(<<Digits(0, 1), Digits(0, 1), Digits(8, 2)>>)

Tokens ==
  { PageTok("home"), PageTok("cart"), PageTok(""),
    ViewportTok(Digits(8, 2), Digits(6, 2), TRUE),
    ViewportTok(Digits(1, 4), Digits(8, 1), TRUE),
    ViewportTok(Digits(8, 2), Digits(6, 2), FALSE),
    ViewportTok(Digits(1, MaxStrDigits + 1), Digits(8, 1), TRUE),
    ZoneTok("header"), ZoneTok("main"),
    Bounds1, Bounds2, Bounds3, CloseTok }

NoDigit == Digits(0, 0)

BlockTokens ==
  { StyleTok([quoted |-> "#1e293b"]), StyleTok([quoted |-> "red"]),
    StyleTok([tw |-> "tw.blue600"]), StyleTok([tw |-> "tw.doesNotExist"]),
    StyleTok([none |-> TRUE]),
    AssertTok(<<Field("min_transitions_v", Number(Digits(1, 2), NoDigit))>>),
    AssertTok(<<Field("min_transitions_v", Number(Digits(2, 1), Digits(5, 1))),
                Field("min_transitions_h", Number(Digits(5, 1), NoDigit))>>),
    AssertTok(<<Field("min_regions", Number(Digits(3, 1), NoDigit))>>),
    AssertTok(<<Field("non_blank", Word("true"))>>),
    AssertTok(<<Field("non_blank", Word("yes")),
                Field("min_regions", Number(Digits(2, 1), Digits(5, 1)))>>),
    AssertTok(<<Field("min_height", Number(Digits(5, 1), NoDigit))>>),
    AssertTok(<<>>),
    ZoneTok("inner"), CloseTok }

\* The lines before the zone.
Preambles ==
  { <<>>, <<DocTok("SIDEBAR")>>, <<DocTok("SIDEBAR"), DocTok("")>>,
    <<DocTok("SIDEBAR"), PageTok("home")>>, <<PageTok("home"), DocTok("SIDEBAR")>>,
    <<DocTok("SIDEBAR"), BlankTok>>, <<DocTok("NAV"), BlankTok, DocTok("SIDEBAR")>>,
    <<DocTok("NAV"), DocTok("SIDEBAR")>> }

BlockTexts ==
  { pre \o <<ZoneTok("main"), Bounds1>> \o body : pre \in Preambles, body \in SeqsUpTo(BlockTokens, MaxBlock) }

ZoneDecls ==
  { <<ZoneTok("main"), Bounds1, CloseTok>>,
    <<ZoneTok("main"), Bounds2, Bounds1, CloseTok>>,
    <<ZoneTok("header"), Bounds3, Bounds2, CloseTok>>,
    <<ZoneTok("header"), StyleTok([quoted |-> "#1e293b"]), CloseTok>>,
    <<ZoneTok("header"), Bounds3, CloseTok, Bounds1>> }

RECURSIVE Flat(_)
Flat(ss) == IF ss = <<>> THEN <<>> ELSE Head(ss) \o Flat(Tail(ss))

DeclTexts == {Flat(ds) : ds \in SeqsUpTo(ZoneDecls, MaxDecls)}

ParseInit ==
  /\ text \in SeqsUpTo(Tokens, MaxTokens) \cup BlockTexts \cup DeclTexts
  /\ parsed = NotParsed
  /\ RegIdle /\ report = NewReport /\ ReportIdle /\ RunIdle /\ EnvIdle /\ ScanIdle

CallParseGuxString ==
  /\ parsed = NotParsed
  /\ parsed' = ParseGuxString(text)
  /\ UNCHANGED <<text, regVars, reportVars, runVars, envVars, scanVars>>

\* _extract_zones, one Zone( match to the test of its bounds:
\* block = _extract_block(text, start); bounds = _extract_bounds(block)
CallExtractBlock ==
  /\ last = <<>>
  /\ \E start \in 1..Len(text) :
       /\ ZoneMatches(text[start])
       /\ LET block == ExtractBlock(text, start)
          IN last' = [start |-> start, block |-> block, bounds |-> ExtractBounds(block)]
  /\ UNCHANGED <<regVars, reportVars, args, zones, stack, status, events,
                 parseVars, scanVars, envVars>>

ParseNext == CallParseGuxString \/ CallExtractBlock

SpecParse == ParseInit /\ [][ParseNext]_vars

(***************************************************************************)
(* C10.  parse_gux_string returns a GuxSpec for every text and never       *)
(* raises; with no Page('name' match the page name is 'unknown', with no   *)
(* Viewport(w, h) match the viewport is (0, 0), with no Zone that has      *)
(* Bounds the zone list is empty, and page name and viewport are those of  *)
(* the first match.                                                        *)
(***************************************************************************)
C10_ParseNeverRaises ==
  parsed # NotParsed =>
    LET pages == {i \in 1..Len(text) : text[i].t = "Page" /\ text[i].name # ""}
        views == {i \in 1..Len(text) : text[i].t = "Viewport" /\ text[i].closed}
    IN /\ ~Raised(parsed)
       /\ parsed.raw = text
       /\ parsed.page_name = IF pages = {} THEN "unknown" ELSE text[Min(pages)].name
       /\ parsed.viewport = IF views = {} THEN <<0, 0>>
                            ELSE <<IntValue(text[Min(views)].w), IntValue(text[Min(views)].h)>>
       /\ (\A i \in 1..Len(text) : text[i].t \notin {"Zone", "Bounds"}
                                     \/ (text[i].t = "Bounds" /\ Len(text[i].nums) # 4))
            => parsed.zones = <<>>

\* The Bounds(...) of four integers in the block of the Zone at token i.
BoundsIn(i) ==
  {j \in 1..Len(ExtractBlock(text, i)) :
     /\ ExtractBlock(text, i)[j].t = "Bounds"
     /\ Len(ExtractBlock(text, i)[j].nums) = 4}

\* The Zone('name', occurrences whose block has such a Bounds(...).
Bounded ==
  {i \in 1..Len(text) : text[i].t = "Zone" /\ text[i].name # "" /\ BoundsIn(i) # {}}

\* The place in the zone list of the zone of the occurrence at token i.
Rank(i) == Cardinality({k \in Bounded : k <= i})

(***************************************************************************)
(* C11.  A Zone('name', ...) occurrence is in the parse result if and only *)
(* if its extracted block contains a Bounds(x1, y1, x2, y2) of four        *)
(* integers, its bounds are then the first such four integers, and the     *)
(* result keeps the zones in textual order, duplicate names included.      *)
(***************************************************************************)
C11_ZonesAreTheBounded ==
  "zones" \in DOMAIN parsed =>
    /\ Len(parsed.zones) = Cardinality(Bounded)
    /\ \A i \in Bounded :
         LET first == ExtractBlock(text, i)[Min(BoundsIn(i))].nums
         IN /\ parsed.zones[Rank(i)].name = text[i].name
            /\ parsed.zones[Rank(i)].bounds =
                 <<IntValue(first[1]), IntValue(first[2]),
                   IntValue(first[3]), IntValue(first[4])>>

\* Two zones of one name are kept, the bounds of the first being the first of
\* two different Bounds(...) in its block.
C11_Witness ==
  /\ "zones" \in DOMAIN parsed /\ Len(parsed.zones) = 2
  /\ parsed.zones[1].name = parsed.zones[2].name
  /\ parsed.zones[1].bounds # parsed.zones[2].bounds

\* The Style(...) with a bg field in the block of the Zone at token i.
StylesIn(i) ==
  {j \in 1..Len(ExtractBlock(text, i)) :
     /\ ExtractBlock(text, i)[j].t = "Style"
     /\ "none" \notin DOMAIN ExtractBlock(text, i)[j].bg}

\* The strings of the texts and of the palette that are '#' and 3 or 6 hex
\* digits.
HexStrings == {"#1e293b", "#2563eb", "#f8fafc", "#ffffff", "#fff"}

(***************************************************************************)
(* C12.  The expected background colour of every zone of the parse result  *)
(* is absent or a hex RGB string: the quoted colour of the first           *)
(* Style(...) of its block that has a bg field, or the palette hex value   *)
(* of that Style's tw.name, absent when the name is unknown.                *)
(***************************************************************************)
C12_ExpectedBgIsHex ==
  "zones" \in DOMAIN parsed =>
    \A i \in Bounded :
      LET bg == parsed.zones[Rank(i)].expected_bg
          style == ExtractBlock(text, i)[Min(StylesIn(i))].bg
      IN /\ bg = None \/ bg \in HexStrings
         /\ StylesIn(i) = {} => bg = None
         /\ (StylesIn(i) # {} /\ "quoted" \in DOMAIN style) => bg = style.quoted
         /\ (StylesIn(i) # {} /\ "tw" \in DOMAIN style) =>
              bg = (IF style.tw = "tw.blue600" THEN "#2563eb" ELSE None)

\* The Assert(...) in the block of the Zone at token i.
AssertsIn(i) ==
  {j \in 1..Len(ExtractBlock(text, i)) : ExtractBlock(text, i)[j].t = "Assert"}

Absent == [absent |-> TRUE]

\* The value a key has in the fields of an Assert(...): that of the first
\* field of that key whose value is of the key's kind, Absent without one.
Given(fields, key) ==
  LET with == {k \in 1..Len(fields) :
                 /\ fields[k].key = key
                 /\ IF key = "non_blank"
                    THEN "word" \in DOMAIN fields[k].val
                         /\ fields[k].val.word \in {"true", "false"}
                    ELSE "whole" \in DOMAIN fields[k].val}
  IN IF with = {} THEN Absent ELSE fields[Min(with)].val

(***************************************************************************)
(* C13.  The assertion of a parsed zone is built from the first            *)
(* Assert(...) of its block, each of the four keys on its own: a key       *)
(* present sets its own field only, Assert(non_blank: true) sets the flag  *)
(* and leaves the three thresholds unset, and a block with no Assert(...)  *)
(* or whose Assert has none of the four keys gives a null assertion.       *)
(***************************************************************************)
C13_AssertFromFirst ==
  "zones" \in DOMAIN parsed =>
    \A i \in Bounded :
      LET a == parsed.zones[Rank(i)].assertions
          fields == ExtractBlock(text, i)[Min(AssertsIn(i))].fields
          v == Given(fields, "min_transitions_v")
          h == Given(fields, "min_transitions_h")
          r == Given(fields, "min_regions")
          nb == Given(fields, "non_blank")
      IN IF AssertsIn(i) = {} THEN a = NoAssert
         ELSE IF v = Absent /\ h = Absent /\ r = Absent /\ nb = Absent THEN a = NoAssert
         ELSE /\ a # NoAssert
              /\ a.min_transitions_v =
                   (IF v = Absent THEN NoThreshold
                    ELSE 10 * IntValue(v.whole) + IntValue(v.frac))
              /\ a.min_transitions_h =
                   (IF h = Absent THEN NoThreshold
                    ELSE 10 * IntValue(h.whole) + IntValue(h.frac))
              /\ a.min_regions = (IF r = Absent THEN NoThreshold ELSE IntValue(r.whole))
              /\ a.non_blank = (nb = Word("true"))

(***************************************************************************)
(* Zone extraction (__main__._load_zones) and the report main builds from  *)
(* it.  The screenshot is given by its size; args.gux names the spec file, *)
(* whose content is `text'; args.crop_rejects tells whether the imaging    *)
(* library's crop rejects a box whose right or lower edge is before its    *)
(* left or upper edge, or gives an image of no pixel in that dimension.    *)
(***************************************************************************)
Picture(width, height) == [width |-> width, height |-> height]

\* ZoneImage; doc <<>> and assertions NoAssert are None
ZoneImage(name, bounds, image, expected_bg, doc, assertions) ==
  [name |-> name, bounds |-> bounds, image |-> image, expected_bg |-> expected_bg,
   doc |-> doc, assertions |-> assertions]

\* A plausible slip: assertions=gz.assertions is left out.
ZoneImageOfSpecNoAssert(gz, crop) ==
  ZoneImage(gz.name, gz.bounds, crop, gz.expected_bg, gz.doc, NoAssert)

\* The ZoneImage(...) of a parsed zone
ZoneImageOfSpec(gz, crop) ==
  ZoneImage(gz.name, gz.bounds, crop, gz.expected_bg, gz.doc, gz.assertions)

Positive(n) == IF n > 0 THEN n ELSE 0

\* image.crop((x1, y1, x2, y2)): an image of the size of the box, whatever of
\* the box lies outside the picture
Crop(image, box, a) ==
  IF box[3] < box[1] \/ box[4] < box[2]
  THEN IF a.crop_rejects THEN ValueError
       ELSE [value |-> Picture(Positive(box[3] - box[1]), Positive(box[4] - box[2]))]
  ELSE [value |-> Picture(box[3] - box[1], box[4] - box[2])]

RECURSIVE CropAll(_, _, _, _)
\* The loop of _load_zones over spec.zones
CropAll(image, gzs, a, out) ==
  IF gzs = <<>> THEN [value |-> out]
  ELSE LET crop == Crop(image, Head(gzs).bounds, a)
       IN IF Raised(crop) THEN crop
          ELSE CropAll(image, Tail(gzs), a,
                       Append(out, ZoneImageOfSpec(Head(gzs), crop.value)))

\* parse_gux_file
ParseGuxFile(path, txt) ==
  IF path = "missing.gux" THEN [raised |-> "FileNotFoundError"]
  ELSE ParseGuxString(txt)

\* _load_zones
LoadZones(image, a, txt) ==
  IF a.gux # None
  THEN LET spec == ParseGuxFile(a.gux, txt)
       IN IF Raised(spec) THEN spec ELSE CropAll(image, spec.zones, a, <<>>)
  ELSE [value |-> << ZoneImage("full", <<0, 0, image.width, image.height>>, image,
                               None, <<>>, NoAssert) >>]

\* Bounds(0, 0, 888, 6), Bounds(8, 0, 0, 6), Bounds(0, 6, 0, 6)
Bounds4 == BoundsTok(<<Digits(0, 1), Digits(0, 1), Digits(8, 3), Digits(6, 1)>>)
Bounds5 == BoundsTok(<<Digits(8, 1), Digits(0, 1), Digits(0, 1), Digits(6, 1)>>)
Bounds6 == BoundsTok(<<Digits(0, 1), Digits(6, 1), Digits(0, 1), Digits(6, 1)>>)

\* The zone declarations of the spec files explored: zones inside an 88 x 66
\* picture, one past its right edge, one with its right edge before its
\* left, one of no width, one without bounds.
FileDecls ==
  { <<DocTok("SIDEBAR"), ZoneTok("header"), Bounds1,
      StyleTok([quoted |-> "#1e293b"]), CloseTok>>,
    <<ZoneTok("main"), Bounds2,
      AssertTok(<<Field("non_blank", Word("true"))>>), CloseTok>>,
    <<ZoneTok("main"), Bounds4, CloseTok>>,
    <<ZoneTok("main"), Bounds5, CloseTok>>,
    <<ZoneTok("main"), Bounds6, CloseTok>>,
    <<ZoneTok("user-info"), CloseTok>> }

FileTexts ==
  {Flat(ds) : ds \in SeqsUpTo(FileDecls, MaxDecls)}
    \cup {<<ViewportTok(Digits(1, MaxStrDigits + 1), Digits(8, 1), TRUE)>>}

Pictures == {Picture(88, 66), Picture(8, 6)}

LoadOptions ==
  [gux : {None, "page.gux", "missing.gux"}, image : Pictures, crop_rejects : BOOLEAN]

LoadInit ==
  /\ args \in LoadOptions
  /\ text \in (IF args.gux = "page.gux" THEN FileTexts ELSE {<<>>})
  /\ parsed = NotParsed
  /\ zones = <<>>
  /\ report = NewReport
  /\ stack = <<>>
  /\ status = "start"
  /\ events = <<>>
  /\ last = Step("main", "start", 0, None)
  /\ RegIdle /\ ReportIdle /\ EnvIdle /\ ScanIdle

\* main: zones = _load_zones(image, args)
CallLoadZones ==
  /\ status = "start"
  /\ LET out == LoadZones(args.image, args, text)
     IN IF Raised(out)
        THEN /\ status' = "raised"
             /\ zones' = zones
             /\ last' = Step("main", "load_zones", 0, out.raised)
        ELSE /\ status' = "loaded"
             /\ zones' = out.value
             /\ last' = Step("main", "load_zones", 0, None)
  /\ UNCHANGED <<regVars, reportVars, args, stack, events, parseVars, scanVars, envVars>>

\* main: report = Report(...); for z in zones: report.set_bounds(z.name, z.bounds)
BuildReport ==
  /\ status = "loaded"
  /\ report' = WithBounds(NewReport, zones)
  /\ status' = "ready"
  /\ last' = Step("main", "set_bounds", 0, None)
  /\ UNCHANGED <<regVars, call, written, args, zones, stack, events, parseVars, scanVars, envVars>>

LoadNext == CallLoadZones \/ BuildReport

SpecLoad == LoadInit /\ [][LoadNext]_vars

(***************************************************************************)
(* C14.  With no spec the zone list is one zone named 'full' with bounds   *)
(* (0, 0, width, height), no expected colour and no assertion; with a spec *)
(* it has one ZoneCrop per parsed zone, in spec order, each with that      *)
(* zone's name, bounds, expected colour and assertion unchanged.           *)
(***************************************************************************)
C14_ZoneListFollowsSpec ==
  status \in {"loaded", "ready"} =>
    IF args.gux = None
    THEN /\ Len(zones) = 1
         /\ zones[1].name = "full"
         /\ zones[1].bounds = <<0, 0, args.image.width, args.image.height>>
         /\ zones[1].expected_bg = None
         /\ zones[1].assertions = NoAssert
    ELSE LET spec == ParseGuxString(text)
         IN /\ Len(zones) = Len(spec.zones)
            /\ \A k \in 1..Len(zones) :
                 /\ zones[k].name = spec.zones[k].name
                 /\ zones[k].bounds = spec.zones[k].bounds
                 /\ zones[k].expected_bg = spec.zones[k].expected_bg
                 /\ zones[k].assertions = spec.zones[k].assertions

\* Two zones are loaded from a spec, one with an expected colour and one with
\* an assertion.
C14_Witness ==
  /\ status = "loaded" /\ args.gux = "page.gux" /\ Len(zones) = 2
  /\ zones[1].expected_bg = "#1e293b" /\ zones[2].assertions # NoAssert

(***************************************************************************)
(* C15.  Every ZoneCrop of zone extraction has bounds within the picture   *)
(* (0 <= x1 <= x2 <= width and 0 <= y1 <= y2 <= height): a spec zone past  *)
(* the picture's edge gives a clipped crop and no error, and the bounds    *)
(* recorded in the report for it lie within the picture.                   *)
(***************************************************************************)
Within(b, image) ==
  /\ 0 <= b[1] /\ b[1] <= b[3] /\ b[3] <= image.width
  /\ 0 <= b[2] /\ b[2] <= b[4] /\ b[4] <= image.height

C15_BoundsWithinPicture ==
  /\ (status = "raised") =>
       \/ args.gux = "missing.gux"
       \/ Raised(ParseGuxString(text))
  /\ status \in {"loaded", "ready"} =>
       \A k \in 1..Len(zones) :
         /\ Within(zones[k].bounds, args.image)
         /\ zones[k].image.width = zones[k].bounds[3] - zones[k].bounds[1]
         /\ zones[k].image.height = zones[k].bounds[4] - zones[k].bounds[2]
  /\ status = "ready" =>
       \A n \in DOMAIN report.zones : Within(report.zones[n].bounds, args.image)

(***************************************************************************)
(* C16.  A crop of one uniform colour whose zone has the non-blank flag    *)
(* (and no vertical threshold of its own) is recorded as a fail by         *)
(* transition scanning: fail_count goes up by one and pass_count stays,    *)
(* whatever the crop's width and height, crops under 2 pixels included.    *)
(***************************************************************************)
\* Transition scanning is about to take zone k, a uniform crop with the
\* non-blank flag.
LinesOnBlank(k) ==
  /\ status = "running" /\ stack # <<>>
  /\ Top.tech = "lines" /\ Top.i = k /\ k <= Len(zones)
  /\ zones[k].image.h_avg = 0 /\ zones[k].image.v_avg = 0
  /\ zones[k].assertions # NoAssert
  /\ zones[k].assertions.non_blank
  /\ zones[k].assertions.min_transitions_v = NoThreshold
  /\ zones[k].assertions.min_transitions_h = NoThreshold

C16_BlankStep ==
  (\E k \in 1..MaxZones + 1 : LinesOnBlank(k)) =>
    /\ report'.fail_count = report.fail_count + 1
    /\ report'.pass_count = report.pass_count

C16_BlankCropFails == [][C16_BlankStep]_vars

(***************************************************************************)
(* C17.  For every zone with an expected background colour, colours        *)
(* compares it with the top cluster's centre and judges pass exactly when  *)
(* the RGB distance is under 20, raising exactly one of pass_count and     *)
(* fail_count by one; for a zone without expected colour it records no     *)
(* expected, actual, distance or pass field and changes neither counter.   *)
(***************************************************************************)
\* colours is about to take zone k.
ColoursOn(k) ==
  /\ status = "running" /\ stack # <<>>
  /\ Top.tech = "colours" /\ Top.i = k

Judgement == {"expected_bg", "actual_bg", "distance", "pass"}

C17_ColoursStep ==
  \A k \in 1..Len(zones) :
    ColoursOn(k) =>
      /\ HasPayload(report', zones[k].name, "colours")
      /\ LET data == report'.zones[zones[k].name].techniques["colours"]
             near == zones[k].image.dist_sq < 20 * 20
         IN IF zones[k].expected_bg # None
            THEN /\ Judgement \subseteq DOMAIN data
                 /\ data.pass = near
                 /\ report'.pass_count = report.pass_count + (IF near THEN 1 ELSE 0)
                 /\ report'.fail_count = report.fail_count + (IF near THEN 0 ELSE 1)
            ELSE /\ Judgement \cap DOMAIN data = {}
                 /\ report'.pass_count = report.pass_count
                 /\ report'.fail_count = report.fail_count

C17_ColoursJudges == [][C17_ColoursStep]_vars

(***************************************************************************)
(* C18.  With --fail-on-delta N the gate fails the run exactly when some   *)
(* zone of the report has a colours payload whose distance is present and  *)
(* greater than N (a zone whose colours payload has no distance is not     *)
(* judged by the gate), and the gate is evaluated only after the report    *)
(* has been output.                                                        *)
(***************************************************************************)
OverDelta(n) ==
  /\ HasPayload(report, n, "colours")
  /\ "distance" \in DOMAIN report.zones[n].techniques["colours"]
  /\ report.zones[n].techniques["colours"].distance > args.fail_on_delta

C18_GateAfterOutput ==
  (status \in {"exit 0", "exit 1"} /\ args.fail_on_delta # NoThreshold) =>
    /\ (status = "exit 1") <=> (\E n \in DOMAIN report.zones : OverDelta(n))
    /\ \E k \in 1..Len(events) : events[k].ev = "output"

(***************************************************************************)
(* C19.  census-diff with a reference image makes exactly one pass/fail    *)
(* judgement per zone, pass exactly when the most frequent census name of  *)
(* the crop equals that of the reference crop; its shifts list holds       *)
(* exactly the names whose percentage changed by 5 points or more, in      *)
(* descending order of magnitude.                                          *)
(***************************************************************************)
\* census-diff is about to take zone k.
CensusDiffOn(k) ==
  /\ status = "running" /\ stack # <<>>
  /\ Top.tech = "census-diff" /\ Top.i = k

\* The percentage of a name in a census, in tenths; 0 when it is not there.
Share(census, n) ==
  IF \E j \in 1..Len(census) : census[j].name = n
  THEN LET j == CHOOSE j \in 1..Len(census) : census[j].name = n IN census[j].pct
  ELSE 0

Magnitude(d) == IF d < 0 THEN -d ELSE d

C19_CensusDiffStep ==
  \A k \in 1..Len(zones) :
    CensusDiffOn(k) =>
      LET img == zones[k].image
          same == TopName(img.census) = TopName(img.ref_census)
          all_names == {img.census[j].name : j \in 1..Len(img.census)}
                         \cup {img.ref_census[j].name : j \in 1..Len(img.ref_census)}
          moved == {n \in all_names :
                      Magnitude(Share(img.census, n) - Share(img.ref_census, n)) >= 50}
      IN /\ report'.pass_count = report.pass_count + (IF same THEN 1 ELSE 0)
         /\ report'.fail_count = report.fail_count + (IF same THEN 0 ELSE 1)
         /\ HasPayload(report', zones[k].name, "census-diff")
         /\ LET shifts == report'.zones[zones[k].name].techniques["census-diff"].shifts
            IN /\ {shifts[j].colour : j \in 1..Len(shifts)} = moved
               /\ Len(shifts) = Cardinality(moved)
               /\ \A i, j \in 1..Len(shifts) :
                    i < j => Magnitude(shifts[i].delta) >= Magnitude(shifts[j].delta)

C19_ShiftsAndJudgement == [][C19_CensusDiffStep]_vars

(***************************************************************************)
(* Environment loading (core/env.py).  A .env file is its lines; a line is *)
(* blank, a comment, a word without '=', or KEY=value with the value       *)
(* possibly in quotes.  args holds the --env-file option and the file      *)
(* system: the file at the --env-file path, and the directories from the   *)
(* working directory upwards, each with its .env file and whether it has a *)
(* .git entry.                                                             *)
(***************************************************************************)
NoFile == [exists |-> FALSE]
File(lines) == [exists |-> TRUE, lines |-> lines]

BlankLine == [t |-> "blank"]
CommentLine == [t |-> "comment"]
WordLine == [t |-> "word"]
PairLine(key, quote, body) == [t |-> "pair", key |-> key, quote |-> quote, body |-> body]

\* raw_value.strip().strip('"').strip("'")
Unquote(line) == line.body

\* result[key] = value
Put(result, key, value) ==
  [k \in DOMAIN result \cup {key} |-> IF k = key THEN value ELSE result[k]]

RECURSIVE ParseDotenv(_, _)
\* env._parse_dotenv
ParseDotenv(lines, result) ==
  IF lines = <<>> THEN result
  ELSE LET line == Head(lines)
       IN IF line.t \in {"blank", "comment", "word"}
          THEN ParseDotenv(Tail(lines), result)
          ELSE IF line.key # ""
          THEN ParseDotenv(Tail(lines), Put(result, line.key, Unquote(line)))
          ELSE ParseDotenv(Tail(lines), result)

RECURSIVE FindDotenvGitFirst(_, _)
\* A plausible slip: the .git test comes before the .env test.
FindDotenvGitFirst(dirs, i) ==
  IF dirs[i].git THEN 0
  ELSE IF dirs[i].env.exists THEN i
  ELSE IF i = Len(dirs) THEN 0
  ELSE FindDotenvGitFirst(dirs, i + 1)

RECURSIVE FindDotenv(_, _)
\* env._find_dotenv: the index of the directory whose .env is found, 0 for None
FindDotenv(dirs, i) ==
  IF dirs[i].env.exists THEN i
  ELSE IF dirs[i].git THEN 0
  ELSE IF i = Len(dirs) THEN 0
  ELSE FindDotenv(dirs, i + 1)

\* The .env file load_env reads, NoFile when it returns None before reading
DotenvOf(a) ==
  IF a.env_file # None
  THEN a.file
  ELSE LET i == FindDotenv(a.dirs, 1)
       IN IF i = 0 THEN NoFile ELSE a.dirs[i].env

\* A plausible slip: os.environ[key] = value for every key of the file.
SetAll(env, dotenv) ==
  [k \in DOMAIN env \cup DOMAIN dotenv |->
     IF k \in DOMAIN dotenv THEN dotenv[k] ELSE env[k]]

\* for key, value in parsed.items(): if key not in os.environ: os.environ[key] = value
SetAbsent(env, dotenv) ==
  [k \in DOMAIN env \cup DOMAIN dotenv |->
     IF k \in DOMAIN env THEN env[k] ELSE dotenv[k]]

\* env.load_env, as os.environ after it
LoadEnv(env, a) ==
  LET file == DotenvOf(a)
  IN IF ~file.exists THEN env
     ELSE SetAbsent(env, ParseDotenv(file.lines, EmptyDict))

\* The longest .env file explored.
MaxLines == 2

EnvKeys == {"TEST_GUX_KEY", "TEST_GUX_KEY2"}

EnvLines ==
  { BlankLine, CommentLine, WordLine,
    PairLine("TEST_GUX_KEY", "", "secret"),
    PairLine("TEST_GUX_KEY", "'", "other"),
    PairLine("TEST_GUX_KEY2", "\"", "fromfile"),
    PairLine("", "", "secret") }

EnvFiles == {File(ls) : ls \in SeqsUpTo(EnvLines, MaxLines)}

\* The directories from the working directory upwards.
EnvDirs ==
  { <<[env |-> f, git |-> g]>> : f \in EnvFiles \cup {NoFile}, g \in BOOLEAN }
    \cup { <<[env |-> NoFile, git |-> g],
             [env |-> f, git |-> TRUE]>>
             : g \in BOOLEAN,
               f \in {NoFile, File(<<PairLine("TEST_GUX_KEY2", "\"", "fromfile")>>)} }

\* The longest chain of directories explored, the last being the root of the
\* file system.
MaxDirs == 3

\* Chains of directories with or without a .env file and a .git entry.
DirChains ==
  SeqsUpTo({[env |-> f, git |-> g]
              : f \in {NoFile, File(<<PairLine("TEST_GUX_KEY", "", "secret")>>)},
                g \in BOOLEAN}, MaxDirs) \ {<<>>}

EnvOptions ==
  { [env_file |-> None, file |-> NoFile, dirs |-> d] : d \in EnvDirs \cup DirChains }
    \cup { [env_file |-> "custom.env", file |-> f,
            dirs |-> <<[env |-> File(<<PairLine("TEST_GUX_KEY", "", "secret")>>),
                        git |-> TRUE]>>]
             : f \in EnvFiles \cup {NoFile} }

EnvInit ==
  /\ args \in EnvOptions
  /\ environ \in UNION {[S -> {"original"}] : S \in SUBSET EnvKeys}
  /\ status = "start"
  /\ zones = <<>> /\ stack = <<>> /\ events = <<>>
  /\ last = Step("main", "start", 0, None)
  /\ RegIdle /\ report = NewReport /\ ReportIdle /\ ParseIdle /\ ScanIdle

\* main: load_env(env_file)
CallLoadEnv ==
  /\ status = "start"
  /\ environ' = LoadEnv(environ, args)
  /\ status' = "loaded"
  /\ last' = Step("main", "load_env", 0, None)
  /\ UNCHANGED <<regVars, reportVars, args, zones, stack, events, parseVars, scanVars>>

\* _find_dotenv(start), start being the first directory of the chain
CallFindDotenv ==
  /\ status = "start" /\ args.env_file = None
  /\ status' = "found"
  /\ last' = [op |-> "_find_dotenv", found |-> FindDotenv(args.dirs, 1)]
  /\ UNCHANGED <<environ, regVars, reportVars, args, zones, stack, events,
                 parseVars, scanVars>>

EnvNext == CallLoadEnv \/ CallFindDotenv

SpecEnv == EnvInit /\ [][EnvNext]_vars

(***************************************************************************)
(* C20.  load_env never changes the value of a variable that is already in *)
(* the environment: only keys absent from the environment are set, from    *)
(* the .env file.                                                          *)
(***************************************************************************)
\* The lines of every .env file of the file system.
AnyLine ==
  LET files == {args.file} \cup {args.dirs[i].env : i \in 1..Len(args.dirs)}
  IN UNION {Range(f.lines) : f \in {f \in files : f.exists}}

C20_Step ==
  /\ \A k \in DOMAIN environ : k \in DOMAIN environ' /\ environ'[k] = environ[k]
  /\ \A k \in DOMAIN environ' \ DOMAIN environ :
       \E line \in AnyLine : line.t = "pair" /\ line.key = k /\ line.body = environ'[k]

C20_NeverOverwrites == [][C20_Step]_vars

\* load_env has read a file that gives a value to a variable of the
\* environment and to one that was absent: the first keeps its value, the
\* second has the file's.
C20_Witness ==
  /\ status = "loaded" /\ args.env_file = "custom.env" /\ args.file.exists
  /\ \E line \in Range(args.file.lines) :
       line.t = "pair" /\ line.key = "TEST_GUX_KEY2" /\ line.body = "fromfile"
  /\ DOMAIN environ = EnvKeys
  /\ environ["TEST_GUX_KEY2"] = "original"
  /\ environ["TEST_GUX_KEY"] = "secret"

(***************************************************************************)
(* C21.  For a zone with an assertion whose crop is at least 2 pixels in   *)
(* both dimensions, transition scanning evaluates the vertical check       *)
(* exactly when the non-blank flag is set or min_transitions_v is given    *)
(* (threshold the given value, else 1) and the horizontal check exactly    *)
(* when min_transitions_h is given; an evaluated check passes exactly when *)
(* the average is at least its threshold and raises one of pass_count and  *)
(* fail_count by one; a zone with no assertion changes neither counter.    *)
(***************************************************************************)
\* Transition scanning is about to take zone k, a crop of 2 pixels or more
\* each way.
LinesOn(k) ==
  /\ status = "running" /\ stack # <<>>
  /\ Top.tech = "lines" /\ Top.i = k
  /\ zones[k].image.h >= 2 /\ zones[k].image.w >= 2

One(b) == IF b THEN 1 ELSE 0

C21_LinesStep ==
  \A k \in 1..Len(zones) :
    LinesOn(k) =>
      LET z == zones[k]
          asserted == z.assertions # NoAssert
          vertical == asserted /\ (z.assertions.non_blank
                                     \/ z.assertions.min_transitions_v # NoThreshold)
          horizontal == asserted /\ z.assertions.min_transitions_h # NoThreshold
          v_pass == vertical /\ z.image.v_avg >=
                      (IF z.assertions.min_transitions_v # NoThreshold
                       THEN z.assertions.min_transitions_v ELSE 10)
          h_pass == horizontal /\ z.image.h_avg >= z.assertions.min_transitions_h
          data == report'.zones[z.name].techniques["lines"]
          checked == IF "assertions" \in DOMAIN data
                     THEN {data.assertions[j].check : j \in 1..Len(data.assertions)}
                     ELSE {}
      IN /\ HasPayload(report', z.name, "lines")
         /\ checked = (IF vertical THEN {"min_transitions_v"} ELSE {})
                        \cup (IF horizontal THEN {"min_transitions_h"} ELSE {})
         /\ report'.pass_count = report.pass_count + One(v_pass) + One(h_pass)
         /\ report'.fail_count = report.fail_count + One(vertical /\ ~v_pass)
                                   + One(horizontal /\ ~h_pass)

C21_LinesChecks == [][C21_LinesStep]_vars

\* Transition scanning has failed the non-blank check of a two-pixel-high
\* crop of one colour and passed both thresholds of another zone.
C21_Witness ==
  /\ last.tech = "lines" /\ last.op = "zone" /\ Len(zones) = 2
  /\ zones[1].name = "footer" /\ zones[2].name = "main" /\ zones[2].image.w = 25
  /\ report.fail_count = 1 /\ report.pass_count = 2
  /\ args.technique = "lines"

(***************************************************************************)
(* C22.  The block of a Zone marker at offset s is text[s..i], i the first *)
(* position at which the parenthesis depth counted from s is back to zero, *)
(* provided i < s + 2000; otherwise it is the window of 2000 characters    *)
(* from s (or to the end of the text) and nothing is raised.  A block is   *)
(* never longer than 2000 characters, and a zone whose Bounds(...) lies    *)
(* beyond the window is dropped.                                           *)
(***************************************************************************)
RECURSIVE Span(_, _)
\* The characters of the tokens s..e of the text, line breaks between them
\* included.
Span(s, e) ==
  IF e < s THEN 0
  ELSE IF e = s THEN Chars(text[s])
  ELSE Span(s, e - 1) + 1 + Chars(text[e])

RECURSIVE DepthTo(_, _)
\* The open parentheses after the tokens s..e.
DepthTo(s, e) == IF e < s THEN 0 ELSE DepthTo(s, e - 1) + Depth(text[e])

Closing(s) == {e \in s..Len(text) : DepthTo(s, e) = 0}
Whole(s) == {e \in s..Len(text) : Span(s, e) <= 2000}

RECURSIVE BlockLength(_)
BlockLength(b) ==
  IF b = <<>> THEN 0
  ELSE IF Len(b) = 1 THEN Chars(b[1])
  ELSE BlockLength(SubSeq(b, 1, Len(b) - 1)) + 1 + Chars(b[Len(b)])

C22_BlockIsCapped ==
  (last # <<>> /\ "block" \in DOMAIN last) =>
    LET s == last.start
        b == last.block
        closed == Closing(s) # {} /\ Span(s, Min(Closing(s))) <= 2000
        m == Max(Whole(s))
    IN /\ IF closed THEN b = SubSeq(text, s, Min(Closing(s)))
          ELSE /\ Len(b) >= m - s + 1
               /\ SubSeq(b, 1, m - s + 1) = SubSeq(text, s, m)
               /\ Len(b) <= m - s + 2
               /\ Len(b) = m - s + 2 => b[Len(b)].t = "cut" /\ m < Len(text)
               /\ m < Len(text) => BlockLength(b) \in {1999, 2000}
       /\ BlockLength(b) <= 2000
       /\ status # "raised"
       /\ (~closed /\ \A e \in s..m : ~BoundsMatches(text[e])) =>
            last.bounds = NoMatch

\* The block of a zone is cut inside a line that runs past the window, and
\* the Bounds after that line is not found.
C22_Witness ==
  /\ last # <<>> /\ "block" \in DOMAIN last
  /\ last.start = 1 /\ Len(text) = 3
  /\ last.block[Len(last.block)].t = "cut"
  /\ BoundsMatches(text[3])
  /\ last.bounds = NoMatch

(***************************************************************************)
(* C23.  The composite invokes a technique that needs a reference image    *)
(* only when a non-empty reference path is supplied: with no reference it  *)
(* invokes neither census-diff nor compare, with a reference it invokes    *)
(* census-diff, and it never invokes compare.                              *)
(***************************************************************************)
C23_ReferenceOnlyWithRef ==
  /\ \A k \in 1..Len(events) :
       (events[k].ev = "start" /\ events[k].by = "all") =>
         /\ events[k].tech # "compare"
         /\ events[k].tech = "census-diff" => args.ref \notin {None, ""}
  /\ (/\ \E k \in 1..Len(events) : events[k].ev = "start" /\ events[k].tech = "all"
      /\ \A f \in 1..Len(stack) : stack[f].tech # "all"
      /\ args.ref \notin {None, ""}
      /\ "census-diff" \in DOMAIN registry) =>
       \E k \in 1..Len(events) :
         events[k].ev = "start" /\ events[k].by = "all" /\ events[k].tech = "census-diff"

\* A composite run with a reference image has returned after census-diff ran
\* in it.
C23_Witness ==
  /\ args.technique = "all" /\ args.ref = "ref.png" /\ status = "returned"
  /\ \E k \in 1..Len(events) :
       events[k].ev = "start" /\ events[k].by = "all" /\ events[k].tech = "census-diff"

\* A composite run with no reference image has returned.
C23_WitnessNoRef ==
  /\ args.technique = "all" /\ args.ref = None /\ status = "returned"
  /\ "census-diff" \in DOMAIN registry /\ "compare" \in DOMAIN registry

(***************************************************************************)
(* Sub-region detection: regions._find_runs over one scan line.  A pixel   *)
(* is its three channels; x coordinates count from 0 as in the code.  The  *)
(* palette's rgb_distance is the Euclidean distance in RGB space, so it    *)
(* exceeds a whole threshold exactly when its square exceeds the square.   *)
(***************************************************************************)
\* regions.COLOUR_THRESHOLD
COLOUR_THRESHOLD == 30

Pixel(r, g, b) == [r |-> r, g |-> g, b |-> b]

\* palette.rgb_distance, squared
RgbDistanceSq(p, q) ==
  (p.r - q.r) * (p.r - q.r) + (p.g - q.g) * (p.g - q.g) + (p.b - q.b) * (p.b - q.b)

RECURSIVE ChannelSum(_, _, _, _)
ChannelSum(l, a, b, ch) ==
  IF b < a THEN 0 ELSE l[b + 1][ch] + ChannelSum(l, a, b - 1, ch)

\* avg = tuple(int(np.mean([c[j] for c in run_colours])) for j in range(3))
AvgColour(l, a, b) ==
  Pixel(ChannelSum(l, a, b, "r") \div (b - a + 1),
        ChannelSum(l, a, b, "g") \div (b - a + 1),
        ChannelSum(l, a, b, "b") \div (b - a + 1))

Run(start_x, end_x, avg) == [start_x |-> start_x, end_x |-> end_x, avg |-> avg]

\* if i - run_start > 5: runs.append((run_start, i - 1, avg))
KeepRun(l, rs, run_start, i) ==
  IF i - run_start > 5
  THEN Append(rs, Run(run_start, i - 1, AvgColour(l, run_start, i - 1)))
  ELSE rs

RECURSIVE ScanLine(_, _, _, _)
\* The loop of _find_runs from index i, and the final run after it.
ScanLine(l, i, run_start, rs) ==
  IF i >= Len(l) THEN KeepRun(l, rs, run_start, Len(l))
  ELSE IF RgbDistanceSq(l[i], l[i + 1]) > COLOUR_THRESHOLD * COLOUR_THRESHOLD
       THEN ScanLine(l, i + 1, i, KeepRun(l, rs, run_start, i))
       ELSE ScanLine(l, i + 1, run_start, rs)

\* regions._find_runs
FindRuns(l) == IF Len(l) = 0 THEN <<>> ELSE ScanLine(l, 1, 0, <<>>)

\* The longest scan line explored.
MaxLine == 7

Grey(v) == Pixel(v, v, v)

\* Two greys within the threshold of each other, one beyond it from both,
\* and a red beyond it from all three.
Pixels == {Grey(0), Grey(17), Grey(60), Pixel(200, 0, 0)}

ScanInit ==
  /\ scanline \in SeqsUpTo(Pixels, MaxLine)
  /\ runs = NoRuns
  /\ RegIdle /\ report = NewReport /\ ReportIdle /\ RunIdle /\ ParseIdle /\ EnvIdle

\* regions.run: all_runs[int(y)] = _find_runs(arr[y])
CallFindRuns ==
  /\ runs = NoRuns
  /\ runs' = [called |-> TRUE, found |-> FindRuns(scanline)]
  /\ UNCHANGED <<scanline, regVars, reportVars, runVars, parseVars, envVars>>

ScanNext == CallFindRuns

SpecScan == ScanInit /\ [][ScanNext]_vars

(***************************************************************************)
(* C24.  A maximal run of adjacent pixels whose consecutive RGB distance   *)
(* stays <= 30 is kept exactly when it is at least 5 pixels wide; only     *)
(* runs narrower than 5 pixels are discarded, interior runs and the final  *)
(* run alike.                                                              *)
(***************************************************************************)
\* The pixels x and x + 1 of the scanline are within the threshold.
Near(x) == RgbDistanceSq(scanline[x + 1], scanline[x + 2]) <= 30 * 30

\* The maximal runs of the scanline, as pairs of first and last x.
MaximalRuns ==
  {ab \in (0..(Len(scanline) - 1)) \X (0..(Len(scanline) - 1)) :
     /\ ab[1] <= ab[2]
     /\ \A x \in ab[1]..(ab[2] - 1) : Near(x)
     /\ ab[1] > 0 => ~Near(ab[1] - 1)
     /\ ab[2] < Len(scanline) - 1 => ~Near(ab[2])}

Kept(ab) ==
  \E k \in 1..Len(runs.found) :
    runs.found[k].start_x = ab[1] /\ runs.found[k].end_x = ab[2]

C24_RunsOfFiveKept ==
  runs # NoRuns =>
    /\ \A ab \in MaximalRuns : Kept(ab) <=> ab[2] - ab[1] + 1 >= 5
    /\ \A k \in 1..Len(runs.found) :
         <<runs.found[k].start_x, runs.found[k].end_x>> \in MaximalRuns

\* What the code does: a run is kept exactly when it is wider than 5 pixels.
C24_RunsOverFiveKept ==
  runs # NoRuns =>
    /\ \A ab \in MaximalRuns : Kept(ab) <=> ab[2] - ab[1] + 1 > 5
    /\ \A k \in 1..Len(runs.found) :
         <<runs.found[k].start_x, runs.found[k].end_x>> \in MaximalRuns

(***************************************************************************)
(* C25.  The documentation of a zone is exactly the contiguous run of      *)
(* '///' lines immediately preceding its Zone marker, prefix stripped, in  *)
(* top-to-bottom order: the walk back stops at the first line that is not  *)
(* a '///' line, and a zone with no immediately preceding '///' line has   *)
(* no documentation.                                                       *)
(***************************************************************************)
\* The first line of the run of /// lines that ends just before line i.
RunStart(i) == Min({k \in 1..i : \A m \in k..(i - 1) : text[m].t = "Doc"})

C25_DocIsPrecedingRun ==
  "zones" \in DOMAIN parsed =>
    \A i \in Bounded :
      parsed.zones[Rank(i)].doc =
        [k \in 1..(i - RunStart(i)) |-> text[RunStart(i) + k - 1].line]

\* The marker's line taken to be the last line before it that is not empty.
Anchor(i) == Max({0} \cup {k \in 1..(i - 1) : text[k].t # "Blank"}) + 1

\* What the code does: the run is the one that ends at the last line before
\* the marker that is not empty.
C25_DocIsRunBeforeBlanks ==
  "zones" \in DOMAIN parsed =>
    \A i \in Bounded :
      LET a == Anchor(i)
          j == Min({k \in 1..a : \A m \in k..(a - 1) : text[m].t = "Doc"})
      IN parsed.zones[Rank(i)].doc = [k \in 1..(a - j) |-> text[j + k - 1].line]

(***************************************************************************)
(* C26.  In a run of the command line the zone entries of the report are   *)
(* in the order in which set_bounds first registered the zones, the order  *)
(* of the zone list, whatever the techniques write afterwards; an entry    *)
(* only a technique created (the '_overall' of compare) comes after all of *)
(* them.                                                                   *)
(***************************************************************************)
\* The places of the zone list where a name occurs for the first time.
FirstOf == {i \in 1..Len(zones) : \A j \in 1..(i - 1) : zones[j].name # zones[i].name}

C26_ZoneListOrder ==
  /\ Len(report.order) >= Cardinality(FirstOf)
  /\ \A i \in FirstOf :
       report.order[Cardinality({j \in FirstOf : j <= i})] = zones[i].name
  /\ \A k \in 1..Len(report.order) :
       k > Cardinality(FirstOf) =>
         \A i \in 1..Len(zones) : zones[i].name # report.order[k]
  /\ \A k \in 1..Len(report.order) : \A m \in 1..Len(report.order) :
       report.order[k] = report.order[m] => k = m
  /\ {report.order[k] : k \in 1..Len(report.order)} = DOMAIN report.zones

\* compare has returned from a run over the zones main and header, listed in
\* that order: the entry of its overall figure follows theirs.
C26_Witness ==
  /\ args.technique = "compare" /\ status = "returned"
  /\ Len(zones) = 2 /\ zones[1].name = "main" /\ zones[2].name = "header"
  /\ report.order = <<zones[1].name, zones[2].name, "_overall">>
  /\ HasPayload(report, "_overall", "compare")

(***************************************************************************)
(* C27.  _find_dotenv, started in any directory, terminates and returns    *)
(* the .env of the nearest directory, the start or one above it, that has  *)
(* one, each directory's .env being looked at before its .git; it returns  *)
(* None as soon as it comes to a directory that has .git and no .env, so   *)
(* it never returns a .env above the nearest .git boundary.                *)
(***************************************************************************)
WithEnv == {i \in 1..Len(args.dirs) : args.dirs[i].env.exists}
WithGit == {i \in 1..Len(args.dirs) : args.dirs[i].git}

C27_NearestWithinRepo ==
  status = "found" =>
    /\ last.found \in 0..Len(args.dirs)
    /\ IF WithEnv # {} /\ \A g \in WithGit : g >= Min(WithEnv)
       THEN last.found = Min(WithEnv)
       ELSE last.found = 0
    /\ last.found # 0 => \A g \in WithGit : g >= last.found

\* The start directory has neither, its parent has both .env and .git and the
\* root has a .env too: the parent's is returned.
C27_Witness ==
  /\ status = "found" /\ Len(args.dirs) = 3
  /\ ~args.dirs[1].env.exists /\ ~args.dirs[1].git
  /\ args.dirs[2].env.exists /\ args.dirs[2].git
  /\ args.dirs[3].env.exists
  /\ last.found = 2

\* A .git with no .env stops the walk below a .env of the root.
C27_WitnessBoundary ==
  /\ status = "found" /\ Len(args.dirs) = 3
  /\ args.dirs[2].git /\ ~args.dirs[2].env.exists /\ args.dirs[3].env.exists
  /\ last.found = 0

(***************************************************************************)
(* C28.  Executing a registered technique terminates without re-entering   *)
(* itself: verify invokes the composite exactly once, the composite never  *)
(* invokes verify or itself, the chain verify -> all -> basic technique is *)
(* at most 3 calls deep, and every basic technique runs at most once for   *)
(* one request.                                                            *)
(***************************************************************************)
\* The executions of technique t that have started.
StartsOf(t) == {k \in 1..Len(events) : events[k].ev = "start" /\ events[k].tech = t}
StartsBy(t) == {k \in 1..Len(events) : events[k].ev = "start" /\ events[k].by = t}

C28_NoReentry ==
  /\ Len(stack) <= 3
  /\ \A i, j \in 1..Len(stack) : stack[i].tech = stack[j].tech => i = j
  /\ \A k \in StartsBy("verify") : events[k].tech = "all"
  /\ Cardinality(StartsBy("verify")) <= 1
  /\ (\E i \in 1..Len(stack) : stack[i].tech = "verify" /\ stack[i].i > 1) =>
       Cardinality(StartsBy("verify")) = 1
  /\ \A k \in StartsBy("all") : events[k].tech \notin {"all", "verify"}
  /\ \A t \in DOMAIN registry : Cardinality(StartsOf(t)) <= 1
  /\ \A k \in 1..Len(events) : events[k].ev = "start" => events[k].tech \in DOMAIN registry
  /\ status = "raised" => last.exc # "RecursionError"

C28_Done == status \in {"exit 0", "exit 1", "raised"}

C28_TerminatesNoReentry == []C28_NoReentry /\ <>C28_Done

\* Three calls deep: a basic technique run by the composite run by verify.
C28_Witness ==
  /\ Len(stack) = 3
  /\ stack[1].tech = "verify" /\ stack[2].tech = "all" /\ stack[3].tech = "lines"
  /\ Len(zones) = 1 /\ stack[3].i = 2

(***************************************************************************)
(* C29.  Every zone of the parse result takes its bounds, expected         *)
(* background and assertion from its own declaration: a Zone with no       *)
(* Bounds of its own is dropped even when a Zone nested in its parentheses *)
(* declares Bounds, and no zone inherits the bounds, style or assertion of *)
(* a nested zone.                                                          *)
(***************************************************************************)
\* The line that closes the parentheses of the Zone at line i.
ZoneEnd(i) == IF Closing(i) = {} THEN Len(text) ELSE Min(Closing(i))

\* The lines of the Zone at line i that are in no Zone nested in it.
Own(i) ==
  {j \in (i + 1)..ZoneEnd(i) :
     ~\E k \in (i + 1)..j : text[k].t = "Zone" /\ j <= ZoneEnd(k)}

RECURSIVE OwnTokens(_, _)
OwnTokens(i, j) ==
  IF j <= i THEN <<text[i]>>
  ELSE IF j \in Own(i) THEN Append(OwnTokens(i, j - 1), text[j])
  ELSE OwnTokens(i, j - 1)

\* The declaration of the Zone at line i without the zones nested in it.
Declaration(i) == OwnTokens(i, ZoneEnd(i))

\* The Zone('name', occurrences that declare a Bounds(...) of their own.
Declared ==
  {i \in 1..Len(text) :
     /\ text[i].t = "Zone" /\ text[i].name # ""
     /\ \E j \in Own(i) : text[j].t = "Bounds" /\ Len(text[j].nums) = 4}

C29_OwnDeclarationOnly ==
  "zones" \in DOMAIN parsed =>
    /\ Len(parsed.zones) = Cardinality(Declared)
    /\ \A i \in Declared :
         LET z == parsed.zones[Cardinality({k \in Declared : k <= i})]
         IN /\ z.name = text[i].name
            /\ z.bounds = ExtractBounds(Declaration(i)).value
            /\ z.expected_bg = ExtractBg(Declaration(i))
            /\ z.assertions = ExtractAssert(Declaration(i))

(***************************************************************************)
(* C30.  A min_regions threshold is never evaluated: two runs of a         *)
(* technique or of the composite that differ only in the min_regions of    *)
(* their zones give the same payloads, the same pass_count and the same    *)
(* fail_count.  The second run is followed step by step beside the first:  *)
(* from the same report every step of it makes the same report, raises or  *)
(* goes on as the first does, and the reports are the same at the start.   *)
(***************************************************************************)
\* The values of min_regions of the second run: absent, a threshold that the
\* regions of a zone can meet and one that they cannot.
RegionCounts == {NoThreshold, 1, 100}

\* The zones that differ from z in min_regions only; an assertion that is
\* left with no key is no assertion.
Variants(z) ==
  IF z.assertions = NoAssert
  THEN {[z EXCEPT !.assertions = GuxAssert(NoThreshold, NoThreshold, m, FALSE)]
          : m \in RegionCounts \ {NoThreshold}}
  ELSE {[z EXCEPT !.assertions.min_regions = m] : m \in RegionCounts}
         \cup (IF /\ z.assertions.min_transitions_v = NoThreshold
                  /\ z.assertions.min_transitions_h = NoThreshold
                  /\ ~z.assertions.non_blank
               THEN {[z EXCEPT !.assertions = NoAssert]} ELSE {})

RECURSIVE VariantLists(_)
\* The lists that differ from the first k zones in min_regions only.
VariantLists(k) ==
  IF k = 0 THEN {<<>>}
  ELSE {Append(zs, z) : zs \in VariantLists(k - 1), z \in Variants(zones[k])}

C30_Step ==
  /\ status = "ready" =>
       \A zs \in VariantLists(Len(zones)) :
         WithBounds(NewReport, zs) = WithBounds(NewReport, zones)
  /\ (status = "running" /\ stack # <<>> /\ stack[Len(stack)].tech \in Basic) =>
       IF stack[Len(stack)].i <= Len(zones)
       THEN \A z \in Variants(zones[stack[Len(stack)].i]) :
              LET did == Zone(stack[Len(stack)].tech, report, z, args)
              IN /\ report' = did.report
                 /\ Raised(did) <=> status' = "raised"
                 /\ ~Raised(did) => last'.judged = did.judged
       ELSE \A zs \in VariantLists(Len(zones)) :
              report' = End(stack[Len(stack)].tech, report, zs, args)
  /\ (last'.op = "execute" /\ last'.tech \in Basic /\ last'.exc # "RecursionError") =>
       \A zs \in VariantLists(Len(zones)) :
         LET b == Begin(last'.tech, report, zs, args)
         IN /\ report' = b.report
            /\ b.next = "raise" <=> status' = "raised"

C30_MinRegionsUnread == [][C30_Step]_vars

\* regions has judged nothing on a zone of 25 x 20 pixels whose assertion
\* asks for three regions where one is found.
C30_Witness ==
  /\ last.tech = "regions" /\ last.op = "zone" /\ args.technique = "regions"
  /\ Len(zones) = 1 /\ zones[1].image.w = 25
  /\ zones[1].assertions # NoAssert
  /\ zones[1].assertions.min_regions = 3
  /\ report.zones["main"].techniques["regions"].count = 1
  /\ report.pass_count = 0 /\ report.fail_count = 0

====
